---- MODULE Spec2Model ----
(***************************************************************************)
(* Model of the rule-file validation scripts of ai-coding-rules:           *)
(*   scripts/validate-mdc.py  (MDCValidator)                               *)
(*   scripts/lint-rules.py    (RuleLinter)                                 *)
(*   scripts/lint-md.py       (project specific rules, external linter)    *)
(*   scripts/format-md.py     (external linter with --fix)                 *)
(*   scripts/generate-pr-report.py (quality score)                         *)
(*   scripts/migrate-to-mdc.py (MDCMigrator)                               *)
(* Each script runs as its own process; a behaviour of the model is one    *)
(* process performing either a sequence of per-file calls or one run of    *)
(* the main function of its script, or the calls on one validator or       *)
(* linter instance with the lists these calls share.                       *)
(***************************************************************************)
EXTENDS Integers, Sequences, FiniteSets, TLC

VARIABLES
    script,     \* which script this process runs
    errors,     \* self.errors of the validator / linter instance
    warnings,   \* self.warnings of the validator / linter instance
    file,       \* the file this process is run on
    ret,        \* what the last call returned (or that it raised)
    argv,       \* the arguments of a run of main
    pc,         \* main of lint-rules.py: index of the path handled next
    all_valid,  \* main of lint-rules.py: its all_valid flag
    stdout,     \* what a run of main has written, one entry per report
    calls,      \* the calls a run has made on the system: the command
                \* lines given to subprocess.run, the files read
    disk,       \* migrate-to-mdc.py: the files on disk, by path
    heap,       \* the list objects of a process, by address
    returns     \* what the calls on one instance have returned

vars ==
    <<script, file, errors, warnings, ret, argv, pc, all_valid, stdout, calls, disk,
      heap, returns>>

\* the per-file calls, and the runs of main
Scripts == {"validate-mdc", "lint-rules", "lint-md"}
Mains ==
    {"lint-rules main", "validate-mdc main", "lint-md main", "format-md main",
     "generate-pr-report main"}

NoCall == [status |-> "none", value |-> <<>>]
Returned(v) == [status |-> "returned", value |-> v]
Raised(e) == [status |-> "raised", value |-> <<e>>]

\* Upper bounds of a text position scan
Max(a, b) == IF a > b THEN a ELSE b
Min(a, b) == IF a < b THEN a ELSE b

\* a local variable of the code: In of the value it is bound to
Bind(value, In(_)) == In(value)

Repeat(c, n) == [i \in 1..n |-> c]

RECURSIVE SeqsUpTo(_, _)
\* every sequence over S of length at most n
SeqsUpTo(S, n) ==
    IF n = 0 THEN {<<>>}
    ELSE LET shorter == SeqsUpTo(S, n - 1)
         IN  shorter \cup {Append(s, x) : s \in {t \in shorter : Len(t) = n - 1}, x \in S}

(***************************************************************************)
(* Text: a string is the sequence of its characters                        *)
(***************************************************************************)
Digits == {"0", "1", "2", "3", "4", "5", "6", "7", "8", "9"}
IsDigit(c) == c \in Digits   \* \d
Lower ==
    {"a", "b", "c", "d", "e", "f", "g", "h", "i", "j", "k", "l", "m",
     "n", "o", "p", "q", "r", "s", "t", "u", "v", "w", "x", "y", "z"}
Upper ==
    {"A", "B", "C", "D", "E", "F", "G", "H", "I", "J", "K", "L", "M",
     "N", "O", "P", "Q", "R", "S", "T", "U", "V", "W", "X", "Y", "Z"}
WordChars == Lower \cup Upper \cup Digits \cup {"_"}   \* \w
SpaceChars == {" ", "\n", "\t"}                       \* \s
IsSpace(c) == c \in SpaceChars

\* pat occurs in s at position i
HasAt(s, i, pat) ==
    /\ i >= 1
    /\ i + Len(pat) - 1 <= Len(s)
    /\ \A j \in 1..Len(pat) : s[i + j - 1] = pat[j]

RECURSIVE Find(_, _, _)
\* first position >= i at which pat occurs in s, 0 when there is none
Find(s, pat, i) ==
    IF i + Len(pat) - 1 > Len(s) THEN 0
    ELSE IF HasAt(s, i, pat) THEN i
    ELSE Find(s, pat, i + 1)

\* Python's  pat in s
Contains(s, pat) == Find(s, pat, 1) # 0

RECURSIVE RunEnd(_, _, _)
\* first position >= i that does not hold a character of the set cs
RunEnd(s, i, cs) ==
    IF i <= Len(s) /\ s[i] \in cs THEN RunEnd(s, i + 1, cs) ELSE i

\* position of the next newline at or after i, Len(s) + 1 when none
LineEnd(s, i) == LET n == Find(s, <<"\n">>, i) IN IF n = 0 THEN Len(s) + 1 ELSE n

AtLineStart(s, i) == i = 1 \/ s[i - 1] = "\n"    \* ^ under re.MULTILINE

RECURSIVE Join(_, _)
Join(segs, sep) ==
    IF Len(segs) = 0 THEN <<>>
    ELSE IF Len(segs) = 1 THEN segs[1]
    ELSE segs[1] \o sep \o Join(Tail(segs), sep)

(***************************************************************************)
(* Paths (pathlib.Path): the sequence of the path's parts                  *)
(***************************************************************************)
path_str(path) == Join(path, <<"/">>)
path_name(path) == IF Len(path) = 0 THEN <<>> ELSE path[Len(path)]
path_parts(path) == {path[i] : i \in 1..Len(path)}

RECURSIVE LastDot(_, _)
LastDot(s, i) == IF i = 0 THEN 0 ELSE IF s[i] = "." THEN i ELSE LastDot(s, i - 1)

\* Path.suffix: the last dot of the name and what follows it
path_suffix(path) ==
    LET n == path_name(path)
        d == LastDot(n, Len(n))
    IN  IF d <= 1 \/ d = Len(n) THEN <<>> ELSE SubSeq(n, d, Len(n))

README_md == <<"R", "E", "A", "D", "M", "E", ".", "m", "d">>
docs == <<"d", "o", "c", "s">>
concise_rules == <<".", "c", "o", "n", "c", "i", "s", "e", "-", "r", "u", "l", "e", "s">>

(***************************************************************************)
(* validate-mdc.py                                                         *)
(***************************************************************************)

\* ---- YAML values as yaml.safe_load hands them to the validator ----
YStr(s) == [ty |-> "str", v |-> s]
YList(s) == [ty |-> "list", v |-> s]
YBool(b) == [ty |-> "bool", v |-> <<b>>]
YInt(n) == [ty |-> "int", v |-> <<n>>]
YNull == [ty |-> "null", v |-> <<>>]
Absent == [ty |-> "absent", v |-> <<>>]   \* the key is not in the mapping

isinstance(x, ty) == x.ty = ty
in_metadata(field, metadata) == metadata[field].ty # "absent"

\* outcome of yaml.safe_load: a parsed document, yaml.YAMLError, or the
\* ValueError the construction of a scalar raises (a date-like value
\* that names no day of the calendar, as in "updated: 2024-13-45")
LoadDict(m) == [kind |-> "dict", m |-> m]
LoadOther(k) == [kind |-> k, m |-> <<>>]   \* "str", "list", "none"
LoadYAMLError == [kind |-> "YAMLError", m |-> <<>>]
LoadValueError == [kind |-> "ValueError", m |-> <<>>]

\* ---- text of an MDC file ----
\* The content is held as the pieces between the occurrences of "---"
\* (what content.split("---") yields).  A piece is known by what the
\* validator observes of it: whether it is "", whitespace only, or has
\* text, and what yaml.safe_load makes of its stripped text.
Piece(s, load) == [s |-> s, load |-> load]
EmptyPiece == Piece("empty", LoadOther("none"))
WsPiece == Piece("ws", LoadOther("none"))
BodyPiece == Piece("text", LoadOther("str"))
ListPiece == Piece("text", LoadOther("list"))
BrokenPiece == Piece("text", LoadYAMLError)
DatePiece == Piece("text", LoadValueError)
MapPiece(m) == Piece("text", LoadDict(m))

\* content.startswith("---")
startswith_marker(content) == Len(content) >= 2 /\ content[1].s = "empty"

\* content.split("---", maxsplit): at most maxsplit + 1 parts; the last
\* part keeps every further marker (it is the tail of pieces)
split(content, maxsplit) ==
    IF Len(content) <= maxsplit + 1
    THEN [i \in 1..Len(content) |-> <<content[i]>>]
    ELSE [i \in 1..(maxsplit + 1) |->
            IF i <= maxsplit THEN <<content[i]>>
            ELSE SubSeq(content, maxsplit + 1, Len(content))]

\* text.strip() == ""
strip_is_empty(text) == Len(text) = 1 /\ text[1].s \in {"empty", "ws"}

\* yaml.safe_load(text.strip()) of a part that holds no marker
yaml_safe_load(text) == text[1].load

\* ---- re.match(r"^\d+\.\d+\.\d+$", version) ----

RECURSIVE DigitsEnd(_, _)
\* first position at or after i that holds no digit (greedy \d*)
DigitsEnd(s, i) ==
    IF i <= Len(s) /\ IsDigit(s[i]) THEN DigitsEnd(s, i + 1) ELSE i

semver_match(s) ==
    LET a == DigitsEnd(s, 1)
        b == DigitsEnd(s, a + 1)
        c == DigitsEnd(s, b + 1)
    IN  /\ a > 1 /\ a <= Len(s) /\ s[a] = "."
        /\ b > a + 1 /\ b <= Len(s) /\ s[b] = "."
        /\ c > b + 1
        \* $ matches at the end, or before a final newline
        /\ \/ c = Len(s) + 1
           \/ c = Len(s) /\ s[c] = "\n"

MaxDescriptionLen == 200

E(msg, field) == [msg |-> msg, field |-> field]

required_fields_short == <<"description", "globs">>
required_fields == <<"description", "globs", "alwaysApply">>

RECURSIVE missing_field_errors(_, _)
\* for field in required_fields: if field not in metadata: append
missing_field_errors(fields, metadata) ==
    IF fields = <<>> THEN <<>>
    ELSE (IF in_metadata(Head(fields), metadata) THEN <<>>
          ELSE <<E("missing required field", Head(fields))>>)
         \o missing_field_errors(Tail(fields), metadata)

description_errors(metadata) ==
    IF in_metadata("description", metadata)
       /\ ~isinstance(metadata["description"], "str")
    THEN <<E("must be a string", "description")>> ELSE <<>>

description_warnings(metadata) ==
    IF /\ in_metadata("description", metadata)
       /\ isinstance(metadata["description"], "str")
       /\ Len(metadata["description"].v) > MaxDescriptionLen
    THEN <<E("longer than 200 characters", "description")>> ELSE <<>>

globs_errors(metadata) ==
    IF in_metadata("globs", metadata) /\ ~isinstance(metadata["globs"], "list")
    THEN <<E("must be a list", "globs")>> ELSE <<>>

globs_warnings_none(metadata) == <<>>

globs_warnings(metadata) ==
    IF /\ in_metadata("globs", metadata)
       /\ isinstance(metadata["globs"], "list")
       /\ Len(metadata["globs"].v) = 0
    THEN <<E("empty list", "globs")>> ELSE <<>>

alwaysApply_errors(metadata) ==
    IF in_metadata("alwaysApply", metadata)
       /\ ~isinstance(metadata["alwaysApply"], "bool")
    THEN <<E("must be a boolean", "alwaysApply")>> ELSE <<>>

tags_warnings(metadata) ==
    IF ~in_metadata("tags", metadata) THEN <<>>
    ELSE IF ~isinstance(metadata["tags"], "list")
         THEN <<E("should be a list", "tags")>>
    ELSE IF Len(metadata["tags"].v) = 0 THEN <<E("empty list", "tags")>>
    ELSE <<>>

version_warnings(metadata) ==
    IF ~in_metadata("version", metadata) THEN <<>>
    ELSE IF ~isinstance(metadata["version"], "str")
         THEN <<E("should be a string", "version")>>
    ELSE IF ~semver_match(metadata["version"].v)
         THEN <<E("not SemVer", "version")>>
    ELSE <<>>

body_warnings(parts) ==
    IF (IF Len(parts) > 2 THEN strip_is_empty(parts[3]) ELSE TRUE)
    THEN <<E("empty content", "body")>> ELSE <<>>

always_valid(errs) == TRUE
is_valid(errs) == Len(errs) = 0

\* the schema part of validate_file (lines 78-122)
schema_check(metadata, parts) ==
    LET errs == missing_field_errors(required_fields, metadata)
                \o description_errors(metadata)
                \o globs_errors(metadata)
                \o alwaysApply_errors(metadata)
        warns == description_warnings(metadata)
                 \o globs_warnings(metadata)
                 \o tags_warnings(metadata)
                 \o version_warnings(metadata)
                 \o body_warnings(parts)
    IN  Returned(<<is_valid(errs), errs, warns>>)

Fail(msg) == Returned(<<FALSE, <<E(msg, "")>>, <<>>>>)

\* what becomes of a yaml.YAMLError raised inside the try block
except_YAMLError == Fail("YAML parse error")

\* the frontmatter part of validate_file (lines 55-76)
parse_frontmatter(content) ==
    IF ~startswith_marker(content) THEN Fail("missing frontmatter")
    ELSE LET parts == split(content, 2) IN
         IF Len(parts) < 3 THEN Fail("frontmatter needs two markers")
         ELSE LET metadata == yaml_safe_load(parts[2]) IN
              IF metadata.kind = "YAMLError" THEN except_YAMLError
              \* the try block has a handler for yaml.YAMLError alone
              ELSE IF metadata.kind = "ValueError" THEN Raised("ValueError")
              ELSE IF metadata.kind # "dict"
                   THEN Fail("frontmatter must be a YAML dict")
              ELSE schema_check(metadata.m, parts)

mdc_suffix == <<".", "m", "d", "c">>

\* MDCValidator.validate_file
validate_file(file_path) ==
    IF ~file_path.exists THEN Fail("file does not exist")
    ELSE IF path_suffix(file_path.path) # mdc_suffix THEN Fail("extension is not .mdc")
    ELSE IF ~file_path.readable THEN Fail("read failed")
    ELSE parse_frontmatter(file_path.content)

\* ---- validate-mdc.py: directory mode and main ----
RECURSIVE validate_directory_from(_, _, _, _, _)
\* the loop of validate_directory from file i on: the counts, and the
\* files it printed a line for; an exception of validate_file ends it
validate_directory_from(mdc_files, i, valid_count, invalid_count, printed) ==
    IF i > Len(mdc_files) THEN Returned(<<valid_count, invalid_count, printed>>)
    ELSE Bind(validate_file(mdc_files[i]), LAMBDA r :
         IF r.status = "raised" THEN r
         ELSE IF r.value[1]
              THEN validate_directory_from(
                       mdc_files, i + 1, valid_count + 1, invalid_count,
                       IF r.value[3] # <<>>
                       THEN Append(printed, [file |-> mdc_files[i].path, valid |-> TRUE,
                                             errors |-> <<>>, warnings |-> r.value[3]])
                       ELSE printed)
              ELSE validate_directory_from(
                       mdc_files, i + 1, valid_count, invalid_count + 1,
                       Append(printed, [file |-> mdc_files[i].path, valid |-> FALSE,
                                        errors |-> r.value[2], warnings |-> r.value[3]])))

\* MDCValidator.validate_directory over what rglob("*.mdc") enumerates
validate_directory(directory) ==
    validate_directory_from(directory.mdc_files, 1, 0, 0, <<>>)

\* main of validate-mdc.py: the exit code and what it prints
validate_main(path) ==
    IF path.kind = "missing"
    THEN [ret |-> Returned(1), out |-> <<"path does not exist">>]
    ELSE IF path.kind = "file"
    THEN Bind(validate_file(path.target), LAMBDA r :
         IF r.status = "raised" THEN [ret |-> r, out |-> <<>>]
         ELSE [ret |-> Returned(IF r.value[1] THEN 0 ELSE 1),
               out |-> <<[file |-> path.target.path, valid |-> r.value[1],
                          errors |-> r.value[2], warnings |-> r.value[3]]>>])
    ELSE IF path.kind = "dir"
    THEN Bind(validate_directory(path), LAMBDA counts :
         IF counts.status = "raised" THEN [ret |-> counts, out |-> <<>>]
         ELSE [ret |-> Returned(IF counts.value[2] = 0 THEN 0 ELSE 1),
               out |-> counts.value[3]
                       \o <<[kind |-> "counts", valid_count |-> counts.value[1],
                             invalid_count |-> counts.value[2]]>>])
    ELSE [ret |-> Returned(1), out |-> <<"invalid path type">>]

(***************************************************************************)
(* lint-md.py                                                              *)
(***************************************************************************)
\* the backtick character
Backtick == "BACKTICK"
Fence == <<Backtick, Backtick, Backtick>>

MAX_HEADER_LEVEL == 4

\* RULE_FILE_KEYWORDS
RULE_FILE_KEYWORDS == <<<<"r", "u", "l", "e", "s", "e", "t", "s">>, <<"r", "u", "l", "e", "s">>, <<"c", "o", "d", "e", "r", "u", "l", "e", "s">>>>

\* any(keyword in path_str for keyword in RULE_FILE_KEYWORDS)
is_rule_file(file_path) ==
    \E k \in 1..Len(RULE_FILE_KEYWORDS) : Contains(path_str(file_path), RULE_FILE_KEYWORDS[k])

\* ^\d{2}-[a-z0-9-]+\.(<one of exts>)$  matched against a file name
filename_match(n, exts) ==
    LET r == RunEnd(n, 4, Lower \cup Digits \cup {"-"})
    IN  /\ Len(n) >= 3
        /\ IsDigit(n[1]) /\ IsDigit(n[2]) /\ n[3] = "-"
        /\ r > 4
        /\ r <= Len(n) /\ n[r] = "."
        /\ SubSeq(n, r + 1, Len(n)) \in exts

\* FILENAME_PATTERN of lint-md.py: ^\d{2}-[a-z0-9-]+\.md$
FILENAME_PATTERN_md(n) == filename_match(n, {<<"m", "d">>})

MdE(kind, args) == [kind |-> kind, args |-> args]

check_filename_format(file_path) ==
    IF ~is_rule_file(file_path) THEN <<>>
    ELSE IF ~FILENAME_PATTERN_md(path_name(file_path)) THEN <<MdE("filename", <<>>)>>
    ELSE <<>>

\* FULL_CODE_BLOCK_PATTERN = BBB+[^\n]*\n.*?BBB+ (B a backtick) (DOTALL): position after
\* the match that starts at i, 0 when none starts there
full_code_block_end(s, i) ==
    IF ~HasAt(s, i, Fence) THEN 0
    ELSE LET nl == Find(s, <<"\n">>, i + 3) IN
         IF nl = 0 THEN 0
         ELSE LET close == Find(s, Fence, nl + 1) IN
              IF close = 0 THEN 0
              ELSE RunEnd(s, close + 3, {Backtick})

RECURSIVE remove_from(_, _)
remove_from(s, i) ==
    IF i > Len(s) THEN <<>>
    ELSE LET e == full_code_block_end(s, i) IN
         IF e # 0 THEN remove_from(s, e)
         ELSE <<s[i]>> \o remove_from(s, i + 1)

\* FULL_CODE_BLOCK_PATTERN.sub("", content)
remove_code_blocks(content) == remove_from(content, 1)

\* number of # of a heading that starts at i, 0 when ^(#{1,6})\s does not
\* match there
header_at(s, i) ==
    LET h == RunEnd(s, i, {"#"}) - i IN
    IF /\ AtLineStart(s, i)
       /\ h >= 1 /\ h <= 6
       /\ i + h <= Len(s) /\ IsSpace(s[i + h])
    THEN h ELSE 0

RECURSIVE md_headers_from(_, _)
\* HEADER_PATTERN = ^(#{1,6})\s+ (MULTILINE): findall, as heading levels
md_headers_from(s, i) ==
    IF i > Len(s) THEN <<>>
    ELSE LET h == header_at(s, i) IN
         IF h # 0 THEN <<h>> \o md_headers_from(s, RunEnd(s, i + h, SpaceChars))
         ELSE md_headers_from(s, i + 1)

md_headers(content) == md_headers_from(remove_code_blocks(content), 1)

RECURSIVE md_depth_errors(_)
md_depth_errors(headers) ==
    IF headers = <<>> THEN <<>>
    ELSE (IF Head(headers) > MAX_HEADER_LEVEL
          THEN <<MdE("too deep", <<Head(headers)>>)>> ELSE <<>>)
         \o md_depth_errors(Tail(headers))

\* check_header_levels of lint-md.py
md_check_header_levels(content) == md_depth_errors(md_headers(content))

RECURSIVE md_skip_errors(_, _)
\* for i in range(1, len(header_levels)): compare with header_levels[i - 1]
md_skip_errors(levels, i) ==
    IF i > Len(levels) THEN <<>>
    ELSE (IF levels[i] > levels[i - 1] + 1
          THEN <<MdE("skip", <<levels[i - 1], levels[i]>>)>> ELSE <<>>)
         \o md_skip_errors(levels, i + 1)

check_header_skipping(content) == md_skip_errors(md_headers(content), 2)

RECURSIVE md_code_blocks_from(_, _)
\* CODE_BLOCK_PATTERN = BBB(\w+)?\n (B a backtick) : findall, the language tags
md_code_blocks_from(s, i) ==
    IF i > Len(s) THEN <<>>
    ELSE LET w == RunEnd(s, i + 3, WordChars) IN
         IF HasAt(s, i, Fence) /\ w <= Len(s) /\ s[w] = "\n"
         THEN <<SubSeq(s, i + 3, w - 1)>> \o md_code_blocks_from(s, w + 1)
         ELSE md_code_blocks_from(s, i + 1)

RECURSIVE empty_positions(_, _)
\* [i for i, lang in enumerate(code_blocks, 1) if not lang]
empty_positions(code_blocks, i) ==
    IF i > Len(code_blocks) THEN <<>>
    ELSE (IF code_blocks[i] = <<>> THEN <<i>> ELSE <<>>)
         \o empty_positions(code_blocks, i + 1)

MAX_POSITIONS_SHOWN == 5

check_code_block_language_tags(content) ==
    LET empty_lang_blocks == empty_positions(md_code_blocks_from(content, 1), 1) IN
    IF empty_lang_blocks # <<>>
    THEN <<MdE("no language tag",
               SubSeq(empty_lang_blocks, 1, Min(MAX_POSITIONS_SHOWN, Len(empty_lang_blocks))))>>
    ELSE <<>>

\* read_file_content raises FileReadError for a missing or unreadable file
can_read(file_path) == file_path.exists /\ file_path.readable

check_project_specific_rules_skip_first(file_path) ==
    IF docs \in path_parts(file_path.path) THEN Returned(<<>>)
    ELSE IF ~can_read(file_path) THEN Returned(<<MdE("cannot read", <<>>)>>)
    ELSE Returned(check_filename_format(file_path.path)
                  \o check_header_skipping(file_path.content)
                  \o md_check_header_levels(file_path.content)
                  \o check_code_block_language_tags(file_path.content))

\* check_project_specific_rules(file): the list of error messages
check_project_specific_rules(file_path) ==
    IF docs \in path_parts(file_path.path) THEN Returned(<<>>)
    ELSE IF ~can_read(file_path) THEN Returned(<<MdE("cannot read", <<>>)>>)
    ELSE Returned(check_filename_format(file_path.path)
                  \o md_check_header_levels(file_path.content)
                  \o check_header_skipping(file_path.content)
                  \o check_code_block_language_tags(file_path.content))

(***************************************************************************)
(* lint-rules.py                                                           *)
(***************************************************************************)
MAX_HEADER_LEVEL_rules == 4
MAX_CONCISE_LINES == 150
WARN_HEADER_LEVEL == 3

\* a finding {"type": ..., "message": ...}
Issue(type, kind, args) == [type |-> type, kind |-> kind, args |-> args]

\* FILENAME_PATTERN of lint-rules.py: ^\d{2}-[a-z0-9-]+\.(mdc|md)$
FILENAME_PATTERN_rules(n) == filename_match(n, {<<"m", "d", "c">>, <<"m", "d">>})

check_filename(file_path) ==
    IF path_name(file_path) = README_md THEN <<>>
    ELSE IF ~FILENAME_PATTERN_rules(path_name(file_path))
         THEN <<Issue("error", "filename", <<>>)>>
    ELSE <<>>

\* CODE_BLOCK_PATTERN = BBB(\w+)?\n.*?BBB (B a backtick) (DOTALL): position after the
\* match that starts at i, 0 when none starts there
code_block_end(s, i) ==
    IF ~HasAt(s, i, Fence) THEN 0
    ELSE LET w == RunEnd(s, i + 3, WordChars) IN
         IF ~(w <= Len(s) /\ s[w] = "\n") THEN 0
         ELSE LET close == Find(s, Fence, w + 1) IN
              IF close = 0 THEN 0 ELSE close + 3

RECURSIVE code_block_sub_from(_, _)
\* CODE_BLOCK_PATTERN.sub("", content)
code_block_sub_from(s, i) ==
    IF i > Len(s) THEN <<>>
    ELSE LET e == code_block_end(s, i) IN
         IF e # 0 THEN code_block_sub_from(s, e)
         ELSE <<s[i]>> \o code_block_sub_from(s, i + 1)

RECURSIVE code_blocks_from(_, _)
\* CODE_BLOCK_PATTERN.findall(content): the language tag of each match
code_blocks_from(s, i) ==
    IF i > Len(s) THEN <<>>
    ELSE LET e == code_block_end(s, i) IN
         IF e # 0
         THEN <<SubSeq(s, i + 3, RunEnd(s, i + 3, WordChars) - 1)>>
              \o code_blocks_from(s, e)
         ELSE code_blocks_from(s, i + 1)

RECURSIVE LastNonNewline(_, _, _)
\* greatest t with lo <= t <= hi and s[t] not a newline, 0 when none
LastNonNewline(s, lo, hi) ==
    IF hi < lo THEN 0
    ELSE IF s[hi] # "\n" THEN hi
    ELSE LastNonNewline(s, lo, hi - 1)

\* HEADER_PATTERN = ^(#{1,6})\s+(.+)$ (MULTILINE): position after the match
\* of a heading that starts at i (with h #), 0 when the title is missing
rules_header_end(s, i, h) ==
    LET e == RunEnd(s, i + h, SpaceChars) IN
    IF e <= Len(s) THEN LineEnd(s, e)
    ELSE \* \s+ gives characters back until (.+) finds a title
         LET t == LastNonNewline(s, i + h + 1, Len(s)) IN
         IF t = 0 THEN 0 ELSE LineEnd(s, t)

RECURSIVE rules_headers_from(_, _)
rules_headers_from(s, i) ==
    IF i > Len(s) THEN <<>>
    ELSE LET h == header_at(s, i)
             e == IF h = 0 THEN 0 ELSE rules_header_end(s, i, h)
         IN  IF e # 0 THEN <<h>> \o rules_headers_from(s, e)
             ELSE rules_headers_from(s, i + 1)

\* headers of check_header_levels, as heading levels
rules_headers(content) == rules_headers_from(code_block_sub_from(content, 1), 1)

\* one finding for the whole document in place of one per heading
rules_depth_errors_once(headers) ==
    IF \E i \in 1..Len(headers) : headers[i] > MAX_HEADER_LEVEL_rules
    THEN <<Issue("error", "too deep", <<headers[CHOOSE i \in 1..Len(headers) :
                                            headers[i] > MAX_HEADER_LEVEL_rules]>>)>>
    ELSE <<>>

RECURSIVE rules_depth_errors(_)
rules_depth_errors(headers) ==
    IF headers = <<>> THEN <<>>
    ELSE (IF Head(headers) > MAX_HEADER_LEVEL_rules
          THEN <<Issue("error", "too deep", <<Head(headers)>>)>> ELSE <<>>)
         \o rules_depth_errors(Tail(headers))

RECURSIVE rules_skip_errors(_, _)
\* previous_level = 0; for each header: compare, then previous_level = it
rules_skip_errors(headers, previous_level) ==
    IF headers = <<>> THEN <<>>
    ELSE (IF Head(headers) > previous_level + 1
          THEN <<Issue("error", "skip", <<previous_level, Head(headers)>>)>> ELSE <<>>)
         \o rules_skip_errors(Tail(headers), Head(headers))

RECURSIVE max_level(_)
\* max((len(level) for level, _ in headers), default=0)
max_level(headers) ==
    IF headers = <<>> THEN 0 ELSE Max(Head(headers), max_level(Tail(headers)))

rules_depth_warning_over_4(headers) ==
    IF max_level(headers) > MAX_HEADER_LEVEL_rules
    THEN <<Issue("warning", "deep", <<max_level(headers)>>)>> ELSE <<>>

rules_depth_warning(headers) ==
    IF max_level(headers) > WARN_HEADER_LEVEL
    THEN <<Issue("warning", "deep", <<max_level(headers)>>)>> ELSE <<>>

\* RuleLinter.check_header_levels
check_header_levels(content) ==
    Bind(rules_headers(content), LAMBDA headers :
        rules_depth_errors(headers) \o rules_skip_errors(headers, 0)
        \o rules_depth_warning(headers))

ToLower(c) ==
    IF c = "G" THEN "g" ELSE IF c = "O" THEN "o" ELSE IF c = "D" THEN "d"
    ELSE IF c = "B" THEN "b" ELSE IF c = "A" THEN "a" ELSE c

HasAtIgnoreCase(s, i, pat) ==
    /\ i + Len(pat) - 1 <= Len(s)
    /\ \A j \in 1..Len(pat) : ToLower(s[i + j - 1]) = pat[j]

\* position after a match of GOOD_BAD_PATTERN = (//|#)\s*(Good|Bad|..),
\* re.IGNORECASE, that starts at i; 0 when none starts there
good_bad_end(s, i) ==
    LET m == IF HasAt(s, i, <<"/", "/">>) THEN i + 2
             ELSE IF HasAt(s, i, <<"#">>) THEN i + 1 ELSE 0
        w == RunEnd(s, m, SpaceChars)
    IN  IF m = 0 THEN 0
        ELSE IF HasAtIgnoreCase(s, w, <<"g", "o", "o", "d">>) THEN w + 4
        ELSE IF HasAtIgnoreCase(s, w, <<"b", "a", "d">>) THEN w + 3
        ELSE IF HasAt(s, w, <<"<check>">>) \/ HasAt(s, w, <<"<cross>">>) THEN w + 1
        ELSE 0

RECURSIVE good_bad_count_from(_, _)
\* len(GOOD_BAD_PATTERN.findall(content))
good_bad_count_from(s, i) ==
    IF i > Len(s) THEN 0
    ELSE LET e == good_bad_end(s, i) IN
         IF e # 0 THEN 1 + good_bad_count_from(s, e)
         ELSE good_bad_count_from(s, i + 1)

\* RuleLinter.check_code_examples
check_code_examples(content, file_path) ==
    Bind(code_blocks_from(content, 1), LAMBDA code_blocks :
    Bind(Contains(path_str(file_path), concise_rules), LAMBDA is_concise :
        (IF Len(code_blocks) = 0
         THEN (IF ~is_concise THEN <<Issue("error", "no code example", <<>>)>> ELSE <<>>)
         ELSE IF Len(code_blocks) < 2 /\ ~is_concise
              THEN <<Issue("warning", "few code examples", <<Len(code_blocks)>>)>>
         ELSE <<>>)
        \o (IF ~is_concise /\ good_bad_count_from(content, 1) = 0 /\ Len(code_blocks) > 0
            THEN <<Issue("warning", "no Good/Bad", <<>>)>> ELSE <<>>)))

\* len(content.splitlines())
line_count(content) ==
    Cardinality({i \in 1..Len(content) : content[i] = "\n"})
    + (IF Len(content) > 0 /\ content[Len(content)] # "\n" THEN 1 ELSE 0)

\* RuleLinter.check_concise_format
check_concise_format(file_path, content) ==
    IF Contains(path_str(file_path), concise_rules) /\ line_count(content) > MAX_CONCISE_LINES
    THEN <<Issue("warning", "too many lines", <<line_count(content)>>)>>
    ELSE <<>>

Select(issues, type) == SelectSeq(issues, LAMBDA x : x.type = type)

\* the skip test of check_file: README.md, or a docs part
rules_exempt(file_path) == path_name(file_path) = README_md \/ docs \in path_parts(file_path)

rules_is_valid(errs) == Len(errs) = 0

\* what becomes of an exception of read_text in check_file
except_Exception == Returned(<<FALSE, <<Issue("error", "read failed", <<>>)>>, <<>>>>)

\* RuleLinter.check_file
check_file(file_path) ==
    IF ~file_path.exists
    THEN Returned(<<FALSE, <<Issue("error", "file does not exist", <<>>)>>, <<>>>>)
    ELSE IF rules_exempt(file_path.path) THEN Returned(<<TRUE, <<>>, <<>>>>)
    ELSE IF ~file_path.readable THEN except_Exception
    ELSE Bind(check_header_levels(file_path.content), LAMBDA header_issues :
         Bind(check_code_examples(file_path.content, file_path.path), LAMBDA code_issues :
         Bind(check_filename(file_path.path)
              \o Select(header_issues, "error")
              \o Select(code_issues, "error"), LAMBDA errs :
            Returned(<<rules_is_valid(errs), errs,
                       Select(header_issues, "warning")
                       \o Select(code_issues, "warning")
                       \o check_concise_format(file_path.path, file_path.content)>>))))

\* ---- lint-rules.py: directory mode and main ----
\* a path argument: kind is "missing" (exists() is false), "file",
\* "dir" or "other" (exists, yet neither file nor directory); target is
\* the file of a "file", mdc_files and md_files are what
\* rglob("*.mdc") and rglob("*.md") enumerate in a "dir"
Path(kind, target, mdc_files, md_files) ==
    [kind |-> kind, target |-> target, mdc_files |-> mdc_files, md_files |-> md_files]

\* all_files = mdc_files + md_files
all_files(directory) == directory.mdc_files \o directory.md_files

RECURSIVE check_directory_from(_, _, _, _)
\* the loop of check_directory from file i on; an exception of
\* check_file ends the loop and leaves check_directory
check_directory_from(files, i, pass_count, fail_count) ==
    IF i > Len(files) THEN Returned(<<pass_count, fail_count>>)
    ELSE IF rules_exempt(files[i].path)
         THEN check_directory_from(files, i + 1, pass_count, fail_count)
    ELSE Bind(check_file(files[i]), LAMBDA r :
         IF r.status = "raised" THEN r
         ELSE IF r.value[1]
              THEN check_directory_from(files, i + 1, pass_count + 1, fail_count)
              ELSE check_directory_from(files, i + 1, pass_count, fail_count + 1))

\* RuleLinter.check_directory: (pass_count, fail_count)
check_directory(directory) == check_directory_from(all_files(directory), 1, 0, 0)

\* {"file": ..., "valid": ..., "errors": ..., "warnings": ...}
FileOutput(file_path, r) ==
    [file |-> path_str(file_path.path), valid |-> r[1], errors |-> r[2], warnings |-> r[3]]

RECURSIVE json_results_from(_, _, _)
\* the loop of the JSON directory mode of main from file i on
json_results_from(files, i, results) ==
    IF i > Len(files) THEN Returned(results)
    ELSE IF rules_exempt(files[i].path) THEN json_results_from(files, i + 1, results)
    ELSE Bind(check_file(files[i]), LAMBDA r :
         IF r.status = "raised" THEN r
         ELSE json_results_from(files, i + 1, Append(results, FileOutput(files[i], r.value))))

count_all(results, wanted) == Len(results)

\* sum(1 for r in results if r["valid"] is wanted)
count_valid(results, wanted) ==
    Len(SelectSeq(results, LAMBDA r : r.valid = wanted))

\* {"results": ..., "summary": {"total": ..., "passed": ..., "failed": ...}}
DirectoryOutput(results) ==
    [kind |-> "results", results |-> results,
     summary |-> [total |-> Len(results),
                  passed |-> count_valid(results, TRUE),
                  failed |-> count_valid(results, FALSE)]]

all_results_valid(results) == \A k \in 1..Len(results) : results[k].valid

\* one iteration of the loop of main over the paths: what it
\* contributes to all_valid, and what it writes
main_path(path, json) ==
    IF path.kind = "missing"
    THEN Returned(<<FALSE, [kind |-> "stderr", msg |-> "path does not exist"]>>)
    ELSE IF path.kind = "file"
    THEN Bind(check_file(path.target), LAMBDA r :
         IF r.status = "raised" THEN r
         ELSE Returned(<<r.value[1],
                         [kind |-> "file", json |-> json,
                          result |-> FileOutput(path.target, r.value)]>>))
    ELSE IF path.kind = "dir"
    THEN IF json
         THEN Bind(json_results_from(all_files(path), 1, <<>>), LAMBDA results :
              IF results.status = "raised" THEN results
              ELSE Returned(<<all_results_valid(results.value),
                              DirectoryOutput(results.value)>>))
         ELSE Bind(check_directory(path), LAMBDA counts :
              IF counts.status = "raised" THEN counts
              ELSE Returned(<<counts.value[2] = 0,
                              [kind |-> "counts", pass_count |-> counts.value[1],
                               fail_count |-> counts.value[2]]>>))
    ELSE Returned(<<FALSE, [kind |-> "stderr", msg |-> "invalid path type"]>>)

overwrite(seen, valid) == valid

\* all_valid = all_valid and is_valid
accumulate(seen, valid) == seen /\ valid

\* return 0 if all_valid else 1
exit_code(valid) == IF valid THEN 0 ELSE 1

(***************************************************************************)
(* The external linter: lint-md.py and format-md.py                        *)
(***************************************************************************)
MARKDOWN_EXTENSIONS == {<<".", "m", "d">>, <<".", "m", "d", "c">>}
CONFIG_FILE_NAME == <<".", "m", "a", "r", "k", "d", "o", "w", "n", "l", "i", "n", "t", ".", "j", "s", "o", "n">>
MARKDOWNLINT_COMMANDS ==
    <<<<"m", "a", "r", "k", "d", "o", "w", "n", "l", "i", "n", "t">>,
      <<"m", "a", "r", "k", "d", "o", "w", "n", "l", "i", "n", "t", "-", "c", "l", "i", "2">>>>
version_flag == <<"-", "-", "v", "e", "r", "s", "i", "o", "n">>
fix_flag == <<"-", "-", "f", "i", "x">>
config_flag == <<"-", "-", "c", "o", "n", "f", "i", "g">>

\* what a call of subprocess.run comes to: a completed process with its
\* returncode, or an exception
Exit(returncode) == [exc |-> "", returncode |-> returncode]
Exc(name) == [exc |-> name, returncode |-> 0]

\* subprocess.TimeoutExpired and subprocess.CalledProcessError derive
\* from subprocess.SubprocessError; OSError and its subclasses do not
SubprocessErrors == {"SubprocessError", "TimeoutExpired", "CalledProcessError"}

\* a call on the system, as calls records it
RunCall(cmd_args) == [op |-> "subprocess.run", args |-> cmd_args]
ReadCall(file_path) == [op |-> "read_text", args |-> file_path.path]

\* find_markdownlint_command returns None when no command answers
None == <<>>

\* a search that looks at the last command alone
last_command_only(probes, i) ==
    IF probes[2].exc = "" /\ probes[2].returncode = 0
    THEN Returned(MARKDOWNLINT_COMMANDS[2]) ELSE Returned(None)

RECURSIVE find_markdownlint_command_from(_, _)
\* the loop of find_markdownlint_command from command i on; probes[i]
\* is what subprocess.run([cmd, "--version"]) comes to
find_markdownlint_command_from(probes, i) ==
    IF i > Len(MARKDOWNLINT_COMMANDS) THEN Returned(None)
    ELSE IF probes[i].exc = ""
         THEN IF probes[i].returncode = 0 THEN Returned(MARKDOWNLINT_COMMANDS[i])
              ELSE find_markdownlint_command_from(probes, i + 1)
    ELSE IF probes[i].exc \in {"FileNotFoundError", "TimeoutExpired"}
         THEN find_markdownlint_command_from(probes, i + 1)
    ELSE Raised(probes[i].exc)

find_markdownlint_command(probes) == find_markdownlint_command_from(probes, 1)

RECURSIVE probe_calls_from(_, _)
\* the version checks that find_markdownlint_command runs
probe_calls_from(probes, i) ==
    IF i > Len(MARKDOWNLINT_COMMANDS) THEN <<>>
    ELSE <<RunCall(<<MARKDOWNLINT_COMMANDS[i], version_flag>>)>>
         \o (IF probes[i].exc \in {"FileNotFoundError", "TimeoutExpired"}
                \/ (probes[i].exc = "" /\ probes[i].returncode # 0)
             THEN probe_calls_from(probes, i + 1) ELSE <<>>)

\* [str(f) for f in files]
file_paths(files) == [i \in 1..Len(files) |-> path_str(files[i].path)]

always_fix(cmd, files, fix, config_exists) ==
    <<cmd, fix_flag>>
    \o (IF config_exists THEN <<config_flag, CONFIG_FILE_NAME>> ELSE <<>>)
    \o file_paths(files)

\* build_markdownlint_command of format-md.py
build_markdownlint_command(cmd, files, fix, config_exists) ==
    <<cmd>>
    \o (IF fix THEN <<fix_flag>> ELSE <<>>)
    \o (IF config_exists THEN <<config_flag, CONFIG_FILE_NAME>> ELSE <<>>)
    \o file_paths(files)

\* build_markdownlint_command of lint-md.py
md_build_markdownlint_command(cmd, files, config_exists) ==
    <<cmd>>
    \o (IF config_exists THEN <<config_flag, CONFIG_FILE_NAME>> ELSE <<>>)
    \o file_paths(files)

\* filter_markdown_files
filter_markdown_files(files) ==
    SelectSeq(files, LAMBDA f : f.exists /\ path_suffix(f.path) \in MARKDOWN_EXTENSIONS)

\* the try block around the run of the linter, in check_markdownlint
\* and in format_markdown_files: the returncode, or the typed error
run_markdownlint(run) ==
    IF run.exc = "" THEN Returned(run.returncode)
    ELSE IF run.exc = "TimeoutExpired" THEN Raised("MarkdownLintExecutionError")
    ELSE IF run.exc \in SubprocessErrors THEN Raised("MarkdownLintExecutionError")
    ELSE Raised(run.exc)

\* check_markdownlint of lint-md.py and format_markdown_files of
\* format-md.py, from the command found on
found_markdownlint(cmd, run) ==
    IF cmd.status = "raised" THEN cmd
    ELSE IF cmd.value = None THEN Raised("MarkdownLintNotFoundError")
    ELSE run_markdownlint(run)

\* the except clauses of lint_markdown_files and of main of
\* format-md.py: both typed errors become the exit code 1
except_MarkdownLint(r) ==
    IF r.status = "raised"
       /\ r.value[1] \in {"MarkdownLintNotFoundError", "MarkdownLintExecutionError"}
    THEN Returned(1)
    ELSE r

\* the calls up to the end of the run of the linter
linter_calls(probes, cmd, cmd_args) ==
    probe_calls_from(probes, 1)
    \o (IF cmd.status = "returned" /\ cmd.value # None THEN <<RunCall(cmd_args)>> ELSE <<>>)

\* project_errors of lint_markdown_files: the files with errors, each
\* with its errors
project_errors(markdown_files) ==
    SelectSeq([i \in 1..Len(markdown_files) |->
                    [file |-> markdown_files[i].path,
                     errors |-> check_project_specific_rules(markdown_files[i]).value]],
              LAMBDA x : x.errors # <<>>)

\* the files check_project_specific_rules reads
project_reads(markdown_files) ==
    LET read == SelectSeq(markdown_files, LAMBDA f : docs \notin path_parts(f.path))
    IN  [i \in 1..Len(read) |-> ReadCall(read[i])]

\* lint_markdown_files: what it returns, what it calls, what it reports
lint_markdown_files(files, env) ==
    LET markdown_files == filter_markdown_files(files)
        cmd == find_markdownlint_command(env.probes)
        cmd_args == md_build_markdownlint_command(cmd.value, markdown_files, env.config_exists)
        linted == except_MarkdownLint(found_markdownlint(cmd, env.run))
        ran == linter_calls(env.probes, cmd, cmd_args)
        found == project_errors(markdown_files)
    IN  IF markdown_files = <<>>
        THEN [ret |-> Returned(1), calls |-> <<>>, out |-> <<"no Markdown file">>]
        ELSE IF linted.status = "raised"
        THEN [ret |-> linted, calls |-> ran, out |-> <<>>]
        ELSE IF found_markdownlint(cmd, env.run).status = "raised"
        THEN [ret |-> linted, calls |-> ran, out |-> <<"linter error">>]
        ELSE [ret |-> Returned(IF found # <<>> THEN 1 ELSE linted.value),
              calls |-> ran \o project_reads(markdown_files),
              out |-> found]

\* main of format-md.py
format_main(files, check, env) ==
    LET markdown_files == filter_markdown_files(files)
        cmd == find_markdownlint_command(env.probes)
        cmd_args == build_markdownlint_command(cmd.value, markdown_files, ~check, env.config_exists)
        formatted == except_MarkdownLint(found_markdownlint(cmd, env.run))
    IN  IF markdown_files = <<>>
        THEN [ret |-> Returned(1), calls |-> <<>>, out |-> <<"no Markdown file">>]
        ELSE [ret |-> formatted,
              calls |-> linter_calls(env.probes, cmd, cmd_args),
              out |-> IF found_markdownlint(cmd, env.run).status = "raised"
                         /\ formatted.status = "returned"
                      THEN <<"linter error">> ELSE <<>>]

(***************************************************************************)
(* generate-pr-report.py                                                   *)
(***************************************************************************)
\* avg_reduction is a percentage rounded to two decimals
\* (calculate-tokens.py); the model counts it in hundredths of a percent
Hundredths == 100

\* check_rule_files: a key that the dictionary lacks reads as the
\* default that calculate_quality_score passes to get()
NoRules == [has_rules |-> FALSE, valid |-> TRUE, warnings |-> <<>>]
RuleCheck(errs, warns) ==
    [has_rules |-> TRUE, valid |-> (Len(errs) = 0), warnings |-> warns]

\* check_documentation
DocCheck(has_rule_changes, docs_updated) ==
    [has_rule_changes |-> has_rule_changes, docs_updated |-> docs_updated]

\* check_token_consumption
NotChecked == [checked |-> FALSE, avg_reduction |-> 0, meets_target |-> FALSE]
TokenCheck(avg_reduction) ==
    [checked |-> TRUE, avg_reduction |-> avg_reduction,
     meets_target |-> (avg_reduction >= 70 * Hundredths)]

\* the rule validation part of calculate_quality_score
rule_penalty(score, rule_check) ==
    IF rule_check.has_rules
    THEN IF ~rule_check.valid THEN score - 40
         ELSE IF Len(rule_check.warnings) > 0
              THEN Max(0, score - Len(rule_check.warnings) * 5)
         ELSE score
    ELSE score

\* the documentation part
doc_penalty(score, doc_check) ==
    IF doc_check.has_rule_changes /\ ~doc_check.docs_updated THEN score - 20 ELSE score

token_penalty_inclusive(score, token_check) ==
    IF token_check.checked /\ ~token_check.meets_target
    THEN IF token_check.avg_reduction <= 50 * Hundredths THEN score - 40
         ELSE IF token_check.avg_reduction <= 70 * Hundredths THEN score - 20
         ELSE score
    ELSE score

\* the token consumption part
token_penalty(score, token_check) ==
    IF token_check.checked /\ ~token_check.meets_target
    THEN IF token_check.avg_reduction < 50 * Hundredths THEN score - 40
         ELSE IF token_check.avg_reduction < 70 * Hundredths THEN score - 20
         ELSE score
    ELSE score

no_clamp(score) == score

\* max(0, min(100, score))
clamp(score) == Max(0, Min(100, score))

\* calculate_quality_score
calculate_quality_score(rule_check, doc_check, token_check) ==
    clamp(token_penalty(doc_penalty(rule_penalty(100, rule_check), doc_check), token_check))

\* main: return 0 if quality_score >= 60 else 1
report_exit_code(quality_score) == IF quality_score >= 60 THEN 0 ELSE 1

(***************************************************************************)
(* migrate-to-mdc.py                                                       *)
(***************************************************************************)
\* ---- str methods ----
LowerLetters ==
    <<"a", "b", "c", "d", "e", "f", "g", "h", "i", "j", "k", "l", "m",
      "n", "o", "p", "q", "r", "s", "t", "u", "v", "w", "x", "y", "z">>
UpperLetters ==
    <<"A", "B", "C", "D", "E", "F", "G", "H", "I", "J", "K", "L", "M",
      "N", "O", "P", "Q", "R", "S", "T", "U", "V", "W", "X", "Y", "Z">>
IsLetter(c) == c \in Lower \cup Upper
char_lower(c) ==
    IF c \in Upper THEN LowerLetters[CHOOSE i \in 1..26 : UpperLetters[i] = c] ELSE c
char_upper(c) ==
    IF c \in Lower THEN UpperLetters[CHOOSE i \in 1..26 : LowerLetters[i] = c] ELSE c

\* s.lower()
str_lower(s) == [i \in 1..Len(s) |-> char_lower(s[i])]

\* s.title(): a letter that follows no letter is put in upper case,
\* every other letter in lower case
str_title(s) ==
    [i \in 1..Len(s) |->
        IF i = 1 \/ ~IsLetter(s[i - 1]) THEN char_upper(s[i]) ELSE char_lower(s[i])]

\* s.replace(old, new) for single characters
str_replace(s, old, new) == [i \in 1..Len(s) |-> IF s[i] = old THEN new ELSE s[i]]

RECURSIVE RunStart(_, _, _)
\* last position <= i that does not hold a character of the set cs
RunStart(s, i, cs) ==
    IF i >= 1 /\ s[i] \in cs THEN RunStart(s, i - 1, cs) ELSE i

\* s.lstrip(chars) and s.strip()
str_lstrip(s, cs) == SubSeq(s, RunEnd(s, 1, cs), Len(s))
str_strip(s) == SubSeq(s, RunEnd(s, 1, SpaceChars), RunStart(s, Len(s), SpaceChars))

\* the positions >= i at which pat occurs in s
Occurrences(s, pat, i) == {j \in i..(Len(s) - Len(pat) + 1) : HasAt(s, j, pat)}

\* s.find(pat, i): the first of them, 0 when there is none
str_find(s, pat, i) ==
    IF Occurrences(s, pat, i) = {} THEN 0
    ELSE CHOOSE j \in Occurrences(s, pat, i) : \A k \in Occurrences(s, pat, i) : j <= k

RECURSIVE str_split_from(_, _, _)
\* s.split(sep) from position i on: the texts between the occurrences
\* of sep, taken from left to right
str_split_from(s, sep, i) ==
    Bind(str_find(s, sep, i), LAMBDA at :
        IF at = 0 THEN <<SubSeq(s, i, Len(s))>>
        ELSE <<SubSeq(s, i, at - 1)>> \o str_split_from(s, sep, at + Len(sep)))

str_split(s, sep) == str_split_from(s, sep, 1)

str_startswith(s, prefix) == HasAt(s, 1, prefix)

\* Path.stem and Path.with_suffix
path_stem(path) ==
    SubSeq(path_name(path), 1, Len(path_name(path)) - Len(path_suffix(path)))
with_suffix(path, new_suffix) ==
    SubSeq(path, 1, Len(path) - 1) \o <<path_stem(path) \o new_suffix>>

md_suffix == <<".", "m", "d">>
marker == <<"-", "-", "-">>

\* ---- MDCMigrator: the metadata it infers ----
\* re.sub(r"^\d+-", "", filename)
drop_number_prefix(filename) ==
    Bind(RunEnd(filename, 1, Digits), LAMBDA e :
        IF e > 1 /\ e <= Len(filename) /\ filename[e] = "-"
        THEN SubSeq(filename, e + 1, Len(filename)) ELSE filename)

\* the default description ends with the two characters of the word
\* for "rule", held here as one character
rule_word == <<" ", "<rule>">>

\* the title of the first line of the stripped content, "" when that
\* line is no heading
first_title(content) ==
    Bind(str_split(str_strip(content), <<"\n">>)[1], LAMBDA line :
        IF str_startswith(line, <<"#">>) THEN str_strip(str_lstrip(line, {"#"})) ELSE <<>>)

\* MDCMigrator._infer_description
infer_description(file_path, content) ==
    IF first_title(content) # <<>> THEN first_title(content)
    ELSE str_title(str_replace(drop_number_prefix(path_stem(file_path)), "-", " "))
         \o rule_word

has_any(s, keywords) == \E k \in keywords : Contains(s, k)

\* MDCMigrator._infer_globs
infer_globs(file_path) ==
    Bind(str_lower(path_stem(file_path)), LAMBDA filename :
        IF has_any(filename, {<<"p", "y", "t", "h", "o", "n">>, <<"f", "a", "s", "t", "a", "p", "i">>}) THEN <<<<"*", "*", "/", "*", ".", "p", "y">>>>
        ELSE IF Contains(filename, <<"r", "e", "a", "c", "t">>) THEN <<<<"*", "*", "/", "*", ".", "t", "s", "x">>, <<"*", "*", "/", "*", ".", "j", "s", "x">>>>
        ELSE IF Contains(filename, <<"v", "u", "e">>) THEN <<<<"*", "*", "/", "*", ".", "v", "u", "e">>>>
        ELSE IF has_any(filename, {<<"t", "y", "p", "e", "s", "c", "r", "i", "p", "t">>, <<"t", "s">>}) THEN <<<<"*", "*", "/", "*", ".", "t", "s">>, <<"*", "*", "/", "*", ".", "t", "s", "x">>>>
        ELSE IF has_any(filename, {<<"j", "a", "v", "a", "s", "c", "r", "i", "p", "t">>, <<"j", "s">>}) THEN <<<<"*", "*", "/", "*", ".", "j", "s">>, <<"*", "*", "/", "*", ".", "j", "s", "x">>>>
        ELSE IF has_any(filename, {<<"g", "e", "n", "e", "r", "a", "l">>, <<"m", "e", "t", "a">>}) THEN <<<<"*", "*", "/", "*">>>>
        ELSE IF has_any(filename, {<<"t", "e", "s", "t", "i", "n", "g">>, <<"t", "e", "s", "t">>})
             THEN <<<<"*", "*", "/", "*", "t", "e", "s", "t", "*", ".", "p", "y">>, <<"*", "*", "/", "*", "t", "e", "s", "t", "*", ".", "t", "s">>, <<"*", "*", "/", "*", "t", "e", "s", "t", "*", ".", "j", "s">>>>
        ELSE <<<<"*", "*", "/", "*">>>>)

\* MDCMigrator._infer_always_apply
infer_always_apply(file_path) ==
    has_any(str_lower(path_stem(file_path)), {<<"g", "e", "n", "e", "r", "a", "l">>, <<"m", "e", "t", "a">>, <<"s", "e", "c", "u", "r", "i", "t", "y">>})

tag_if(test, tag) == IF test THEN <<tag>> ELSE <<>>

\* MDCMigrator._infer_tags
infer_tags(file_path, content) ==
    Bind(str_lower(path_stem(file_path)), LAMBDA filename :
    Bind(str_lower(content), LAMBDA content_lower :
    Bind(tag_if(Contains(filename, <<"p", "y", "t", "h", "o", "n">>) \/ Contains(content_lower, <<"p", "y", "t", "h", "o", "n">>), <<"p", "y", "t", "h", "o", "n">>)
         \o tag_if(Contains(filename, <<"t", "y", "p", "e", "s", "c", "r", "i", "p", "t">>) \/ Contains(content_lower, <<"t", "y", "p", "e", "s", "c", "r", "i", "p", "t">>)
                   \/ Contains(filename, <<"t", "s">>), <<"t", "y", "p", "e", "s", "c", "r", "i", "p", "t">>)
         \o tag_if(Contains(filename, <<"j", "a", "v", "a", "s", "c", "r", "i", "p", "t">>) \/ Contains(content_lower, <<"j", "a", "v", "a", "s", "c", "r", "i", "p", "t">>)
                   \/ Contains(filename, <<"j", "s">>), <<"j", "a", "v", "a", "s", "c", "r", "i", "p", "t">>)
         \o tag_if(Contains(filename, <<"r", "e", "a", "c", "t">>) \/ Contains(content_lower, <<"r", "e", "a", "c", "t">>), <<"r", "e", "a", "c", "t">>)
         \o tag_if(Contains(filename, <<"v", "u", "e">>) \/ Contains(content_lower, <<"v", "u", "e">>), <<"v", "u", "e">>)
         \o tag_if(Contains(filename, <<"f", "a", "s", "t", "a", "p", "i">>) \/ Contains(content_lower, <<"f", "a", "s", "t", "a", "p", "i">>), <<"f", "a", "s", "t", "a", "p", "i">>)
         \o tag_if(has_any(filename, {<<"t", "e", "s", "t">>, <<"t", "e", "s", "t", "i", "n", "g">>}), <<"t", "e", "s", "t", "i", "n", "g">>)
         \o tag_if(Contains(filename, <<"s", "e", "c", "u", "r", "i", "t", "y">>) \/ Contains(content_lower, <<"s", "e", "c", "u", "r", "i", "t", "y">>), <<"s", "e", "c", "u", "r", "i", "t", "y">>)
         \o tag_if(has_any(filename, {<<"g", "e", "n", "e", "r", "a", "l">>, <<"m", "e", "t", "a">>}), <<"g", "e", "n", "e", "r", "a", "l">>)
         \o tag_if(Contains(filename, <<"c", "o", "d", "i", "n", "g", "-", "s", "t", "a", "n", "d", "a", "r", "d", "s">>)
                   \/ Contains(content_lower, <<"c", "o", "d", "i", "n", "g", "-", "s", "t", "a", "n", "d", "a", "r", "d", "s">>), <<"c", "o", "d", "i", "n", "g", "-", "s", "t", "a", "n", "d", "a", "r", "d", "s">>),
         LAMBDA tags : IF tags = <<>> THEN <<<<"g", "e", "n", "e", "r", "a", "l">>>> ELSE tags)))

\* MDCMigrator.infer_metadata, the keys in the order they are set
infer_metadata(file_path, content) ==
    [description |-> infer_description(file_path, content),
     globs |-> infer_globs(file_path),
     alwaysApply |-> infer_always_apply(file_path),
     tags |-> infer_tags(file_path, content),
     version |-> <<"1", ".", "0", ".", "0">>,
     author |-> <<"a", "i", "-", "c", "o", "d", "i", "n", "g", "-", "r", "u", "l", "e", "s", "-", "t", "e", "a", "m">>]

\* ---- yaml.dump of the metadata ----
\* The texts dumped are made of letters, digits, spaces and - . * / ;
\* such a text is written plain unless it starts with an indicator
\* (here *), with the document marker, or with a dash that a space or
\* the end follows; it is written between single quotes otherwise.
plain_allowed(s) ==
    /\ s # <<>>
    /\ s[1] # "*"
    /\ ~str_startswith(s, marker)
    /\ ~(s[1] = "-" /\ (Len(s) = 1 \/ s[2] = " "))

dump_str(s) == IF plain_allowed(s) THEN s ELSE <<"'">> \o s \o <<"'">>
dump_bool(b) == IF b THEN <<"t", "r", "u", "e">> ELSE <<"f", "a", "l", "s", "e">>

RECURSIVE dump_list(_)
dump_list(items) ==
    IF items = <<>> THEN <<>>
    ELSE <<"-", " ">> \o dump_str(Head(items)) \o <<"\n">> \o dump_list(Tail(items))

\* yaml.dump(metadata, allow_unicode=True, sort_keys=False)
yaml_dump(metadata) ==
    <<"d", "e", "s", "c", "r", "i", "p", "t", "i", "o", "n", ":", " ">> \o dump_str(metadata.description) \o <<"\n">>
    \o <<"g", "l", "o", "b", "s", ":">> \o <<"\n">> \o dump_list(metadata.globs)
    \o <<"a", "l", "w", "a", "y", "s", "A", "p", "p", "l", "y", ":", " ">> \o dump_bool(metadata.alwaysApply) \o <<"\n">>
    \o <<"t", "a", "g", "s", ":">> \o <<"\n">> \o dump_list(metadata.tags)
    \o <<"v", "e", "r", "s", "i", "o", "n", ":", " ">> \o dump_str(metadata.version) \o <<"\n">>
    \o <<"a", "u", "t", "h", "o", "r", ":", " ">> \o dump_str(metadata.author) \o <<"\n">>

\* the content convert_to_mdc makes of the content of the .md file
mdc_content_of(md_file, content) ==
    IF str_startswith(content, marker) THEN content
    ELSE marker \o <<"\n">> \o str_strip(yaml_dump(infer_metadata(md_file, content)))
         \o <<"\n">> \o marker \o <<"\n", "\n">> \o content

\* ---- the text of a file as open(..., "r") and open(..., "w") give it ----
\* a "\n" that follows a "\r" is dropped with it
after_cr(part) == IF part # <<>> /\ part[1] = "\n" THEN Tail(part) ELSE part

\* reading in text mode turns "\r\n" and a lone "\r" into "\n"
universal_newlines(raw) ==
    Bind(str_split(raw, <<"\r">>), LAMBDA parts :
        Join([k \in 1..Len(parts) |-> IF k = 1 THEN parts[k] ELSE after_cr(parts[k])],
             <<"\n">>))

\* writing in text mode turns "\n" into os.linesep, which is "\n" here
os_linesep(chars) == chars

\* ---- yaml.safe_load of a text made of "key: scalar" lines and of
\* ---- "key:" lines that "- item" lines follow
\* a scalar: nothing is null, a text between single quotes is that text,
\* true and false are booleans, every other plain text is itself; a
\* quote that is not closed is a scanner error
load_scalar(v) ==
    IF v = <<>> THEN YNull
    ELSE IF v[1] = "'"
         THEN IF Len(v) >= 2 /\ v[Len(v)] = "'" /\ ~Contains(SubSeq(v, 2, Len(v) - 1), <<"'">>)
              THEN YStr(SubSeq(v, 2, Len(v) - 1))
              ELSE [ty |-> "error", v |-> <<>>]
    ELSE IF v \in {<<"t", "r", "u", "e">>, <<"f", "a", "l", "s", "e">>} THEN YBool(IF v = <<"t", "r", "u", "e">> THEN "true" ELSE "false")
    ELSE YStr(v)

is_item(line) == str_startswith(line, <<"-", " ">>) \/ line = <<"-">>

\* the index of the line that sets the key, 0 when no line does
key_line(lines, key) ==
    IF \E i \in 1..Len(lines) : str_startswith(lines[i], key \o <<":">>)
    THEN CHOOSE i \in 1..Len(lines) :
            /\ str_startswith(lines[i], key \o <<":">>)
            /\ \A j \in 1..(i - 1) : ~str_startswith(lines[j], key \o <<":">>)
    ELSE 0

\* the "- item" lines that follow line i
items_after(lines, i) ==
    Bind(CHOOSE n \in i..Len(lines) :
            /\ \A j \in (i + 1)..n : is_item(lines[j])
            /\ n = Len(lines) \/ ~is_item(lines[n + 1]),
         LAMBDA n : [j \in 1..(n - i) |->
                        load_scalar(str_strip(SubSeq(lines[i + j], 2, Len(lines[i + j]))))])

\* the value of the key in the mapping the lines spell
load_key(lines, key) ==
    Bind(key_line(lines, key), LAMBDA i :
        IF i = 0 THEN Absent
        ELSE Bind(str_strip(SubSeq(lines[i], Len(key) + 2, Len(lines[i]))), LAMBDA v :
            IF v = <<>> /\ i < Len(lines) /\ is_item(lines[i + 1])
            THEN Bind(items_after(lines, i), LAMBDA items :
                    IF \E j \in 1..Len(items) : items[j].ty = "error"
                    THEN [ty |-> "error", v |-> <<>>]
                    ELSE YList([j \in 1..Len(items) |-> items[j].v]))
            ELSE load_scalar(v)))

metadata_keys == <<<<"d", "e", "s", "c", "r", "i", "p", "t", "i", "o", "n">>, <<"g", "l", "o", "b", "s">>, <<"a", "l", "w", "a", "y", "s", "A", "p", "p", "l", "y">>, <<"t", "a", "g", "s">>, <<"v", "e", "r", "s", "i", "o", "n">>, <<"a", "u", "t", "h", "o", "r">>>>

\* yaml.safe_load(text) for such a text
safe_load_text(text) ==
    IF text = <<>> THEN LoadOther("none")
    ELSE Bind(str_split(text, <<"\n">>), LAMBDA lines :
        IF \A i \in 1..Len(lines) :
                ~is_item(lines[i]) => ~Contains(lines[i], <<":">>)
        THEN LoadOther("str")
        ELSE IF \E k \in 1..Len(metadata_keys) : load_key(lines, metadata_keys[k]).ty = "error"
             THEN LoadYAMLError
        ELSE LoadDict([description |-> load_key(lines, <<"d", "e", "s", "c", "r", "i", "p", "t", "i", "o", "n">>),
                       globs |-> load_key(lines, <<"g", "l", "o", "b", "s">>),
                       alwaysApply |-> load_key(lines, <<"a", "l", "w", "a", "y", "s", "A", "p", "p", "l", "y">>),
                       tags |-> load_key(lines, <<"t", "a", "g", "s">>),
                       version |-> load_key(lines, <<"v", "e", "r", "s", "i", "o", "n">>)]))

\* a part of content.split("---") as validate_file looks at it: what
\* strip() leaves of it and what yaml.safe_load makes of that
piece_of(part) ==
    Piece(IF part = <<>> THEN "empty" ELSE IF str_strip(part) = <<>> THEN "ws" ELSE "text",
          safe_load_text(str_strip(part)))

\* the content of a .mdc file, marker by marker
mdc_pieces(text) ==
    Bind(str_split(text, marker), LAMBDA parts : [i \in 1..Len(parts) |-> piece_of(parts[i])])

\* ---- MDCMigrator.migrate_file ----
OnDisk(content) == [exists |-> TRUE, content |-> content]
NotOnDisk == [exists |-> FALSE, content |-> <<>>]

\* "if mdc_file.exists() and not self.force"
never_refuses(target_exists, force) == FALSE
refuses_target(target_exists, force) == target_exists /\ ~force

\* the checks migrate_file makes before it touches a file: the value
\* they return, "go on" when none of them returns
migrate_checks(md_file, dry_run, force, files) ==
    IF ~files[md_file].exists THEN Returned(FALSE)
    ELSE IF path_suffix(md_file) # md_suffix THEN Returned(FALSE)
    ELSE IF refuses_target(files[with_suffix(md_file, mdc_suffix)].exists, force)
         THEN Returned(FALSE)
    ELSE IF dry_run THEN Returned(TRUE)
    ELSE NoCall

\* convert_to_mdc(md_file)[1] for the file as the disk holds it
converted(md_file, files) ==
    mdc_content_of(md_file, universal_newlines(files[md_file].content))


\* ---- generate-pr-report.py: the checks of the changed files ----
str_endswith(s, suffix) ==
    Len(suffix) <= Len(s) /\ SubSeq(s, Len(s) - Len(suffix) + 1, Len(s)) = suffix

docs_slash == <<"d", "o", "c", "s", "/">>
DOC_NAMES == {<<"C", "H", "A", "N", "G", "E", "L", "O", "G", ".", "m", "d">>, <<"R", "E", "A", "D", "M", "E", ".", "m", "d">>, <<"R", "E", "A", "D", "M", "E", ".", "c", "n", ".", "m", "d">>}

\* the filter of check_rule_files and of check_documentation, on the
\* path as git prints it
is_rule_change_not_changelog(f) ==
    /\ str_endswith(f, mdc_suffix) \/ str_endswith(f, <<".", "m", "d">>)
    /\ ~Contains(f, README_md)
    /\ ~HasAt(f, 1, docs_slash)
    /\ f # <<"C", "H", "A", "N", "G", "E", "L", "O", "G", ".", "m", "d">>

is_rule_change(f) ==
    /\ str_endswith(f, mdc_suffix) \/ str_endswith(f, <<".", "m", "d">>)
    /\ ~Contains(f, README_md)
    /\ ~HasAt(f, 1, docs_slash)

\* run_command(["python", "scripts/lint-rules.py", rule_file, "--json"])
\* for a file that exists: the exit code of main and the JSON document
\* it prints; a run that cannot start, or that ends with a traceback,
\* gives exit code 1 and no JSON document
lint_rules_json(rule_file, python_ok) ==
    IF ~python_ok THEN [returncode |-> 1, json |-> FALSE, doc |-> <<>>]
    ELSE Bind(check_file(rule_file), LAMBDA r :
        IF r.status = "raised" THEN [returncode |-> 1, json |-> FALSE, doc |-> <<>>]
        ELSE [returncode |-> exit_code(accumulate(TRUE, r.value[1])), json |-> TRUE,
              doc |-> FileOutput(rule_file, r.value)])

\* "if returncode != 0", json.loads(stdout) succeeds,
\* "if not result.get("valid", True)"
collects_every(run) == run.json
collects(run) == run.returncode # 0 /\ run.json /\ ~run.doc.valid

\* "except json.JSONDecodeError: errors.append(...)"
decode_failed(run) == run.returncode # 0 /\ ~run.json

RECURSIVE check_rule_files_from(_, _, _, _, _)
\* the loop of check_rule_files from rule file i on
check_rule_files_from(rule_files, i, python_ok, errs, warns) ==
    IF i > Len(rule_files) THEN <<errs, warns>>
    ELSE IF ~rule_files[i].exists
         THEN check_rule_files_from(rule_files, i + 1, python_ok, errs, warns)
    ELSE Bind(lint_rules_json(rule_files[i], python_ok), LAMBDA run :
        check_rule_files_from(rule_files, i + 1, python_ok,
            errs \o (IF collects(run) THEN run.doc.errors
                     ELSE IF decode_failed(run)
                          THEN <<Issue("error", "lint-rules failed", <<>>)>>
                     ELSE <<>>),
            warns \o (IF collects(run) THEN run.doc.warnings ELSE <<>>)))

\* check_rule_files(changed_files); all_files is added + modified
check_rule_files(all_changed, python_ok) ==
    Bind(SelectSeq(all_changed, LAMBDA f : is_rule_change(path_str(f.path))),
         LAMBDA rule_files :
        IF rule_files = <<>> THEN NoRules
        ELSE Bind(check_rule_files_from(rule_files, 1, python_ok, <<>>, <<>>), LAMBDA found :
            [has_rules |-> TRUE, count |-> Len(rule_files), files |-> rule_files,
             errors |-> found[1], warnings |-> found[2], valid |-> (Len(found[1]) = 0)]))

\* check_documentation(changed_files)
check_documentation(all_changed) ==
    DocCheck(\E i \in 1..Len(all_changed) : is_rule_change(path_str(all_changed[i].path)),
             \E i \in 1..Len(all_changed) : path_str(all_changed[i].path) \in DOC_NAMES)

\* the lint-rules.py runs check_rule_files starts, by rule file
rule_runs(all_changed) ==
    SelectSeq(all_changed, LAMBDA f : is_rule_change(path_str(f.path)) /\ f.exists)

(***************************************************************************)
(* Inputs and calls                                                        *)
(***************************************************************************)
\* ---- files ----
File(path, exists, readable, content) ==
    [path |-> path, exists |-> exists, readable |-> readable, content |-> content]

\* ---- the MDC files validate-mdc.py is run on ----
MaxVersionLen == 5
MaxPieces == 4

VersionChars == {"1", ".", "v"}

DescriptionValues ==
    {Absent, YNull, YInt("1"), YStr(<<"x">>),
     YStr(Repeat("x", MaxDescriptionLen)), YStr(Repeat("x", MaxDescriptionLen + 1))}
GlobsValues == {Absent, YStr(<<"*">>), YList(<<>>), YList(<<"*">>)}
AlwaysApplyValues == {Absent, YStr(<<"y">>), YInt("1"), YBool("true")}
TagsValues == {Absent, YStr(<<"a">>), YList(<<>>), YList(<<"a">>)}
VersionValues ==
    {Absent, YInt("1"), YStr(<<"1", ".", "1", ".", "1">>), YStr(<<"v", "1">>)}

\* every combination of the keys of the schema, with a few versions
SchemaMetadata ==
    [description : DescriptionValues, globs : GlobsValues,
     alwaysApply : AlwaysApplyValues, tags : TagsValues, version : VersionValues]

\* a well-formed mapping with every short version text
VersionMetadata ==
    {[description |-> YStr(<<"x">>), globs |-> YList(<<"*">>),
      alwaysApply |-> YBool("true"), tags |-> Absent, version |-> YStr(s)] :
        s \in SeqsUpTo(VersionChars, MaxVersionLen)}

MinimalMetadata ==
    [description |-> YStr(<<"x">>), globs |-> YList(<<"*">>),
     alwaysApply |-> YBool("true"), tags |-> Absent, version |-> Absent]

SomePieces ==
    {EmptyPiece, WsPiece, BodyPiece, ListPiece, BrokenPiece, DatePiece,
     MapPiece(MinimalMetadata)}

MdcContents ==
    {<<EmptyPiece, MapPiece(m), body>> :
        m \in SchemaMetadata \cup VersionMetadata, body \in {BodyPiece, WsPiece, EmptyPiece}}
    \cup (SeqsUpTo(SomePieces, MaxPieces) \ {<<>>})

MdcPath == <<<<"r", "u", "l", "e", "s">>, <<"0", "1", "-", "g", "e", "n", "e", "r", "a", "l", ".", "m", "d", "c">>>>
MdPath == <<<<"r", "u", "l", "e", "s">>, <<"0", "1", "-", "g", "e", "n", "e", "r", "a", "l", ".", "m", "d">>>>

MdcFiles ==
    {File(MdcPath, TRUE, TRUE, c) : c \in MdcContents}
    \cup {File(p, e, r, <<EmptyPiece, MapPiece(MinimalMetadata), BodyPiece>>) :
            p \in {MdcPath, MdPath}, e \in BOOLEAN, r \in BOOLEAN}

\* ---- the Markdown files lint-rules.py and lint-md.py are run on ----
MaxHeadings == 3
MaxFenceLines == 4

Heading(level) == Repeat("#", level) \o <<" ", "a">>

HeadingLines == {Heading(level) : level \in 1..5}

\* a fence, a fence tagged c+, a fence of four backticks, a heading
FenceLines ==
    {Fence, Fence \o <<"c", "+">>, Fence \o <<Backtick>>, Heading(2)}

RECURSIVE Text(_)
\* the text whose lines are the given ones, each ended by a newline
Text(lines) ==
    IF lines = <<>> THEN <<>> ELSE Head(lines) \o <<"\n">> \o Text(Tail(lines))

HeadingDocs == SeqsUpTo(HeadingLines, MaxHeadings)
FenceDocs == SeqsUpTo(FenceLines, MaxFenceLines)

\* a rule document with two tagged, annotated examples
GoodDoc ==
    <<Heading(1), Heading(2), Fence \o <<"p", "y">>, <<"#", " ", "G", "o", "o", "d">>, Fence,
      Fence \o <<"p", "y">>, <<"/", "/", " ", "B", "a", "d">>, Fence>>

FewDocs ==
    {<<>>, <<Heading(1)>>, <<Heading(2)>>, <<Heading(1), Heading(3)>>,
     <<Heading(1), Heading(2), Heading(2), Heading(3)>>,
     <<Heading(1), Heading(2), Heading(3), Heading(4)>>,
     <<Heading(1), Fence, <<"a">>, Fence>>,
     <<Heading(1), Heading(3), Heading(5), Fence, <<"a">>, Fence>>,
     GoodDoc}

RulePath == <<<<"r", "u", "l", "e", "s", "e", "t", "s">>, <<"0", "1", "-", "g", "e", "n", "e", "r", "a", "l", ".", "m", "d">>>>
PlainPath == <<<<"n", "o", "t", "e", "s">>, <<"0", "1", "-", "g", "e", "n", "e", "r", "a", "l", ".", "m", "d">>>>

LintPaths ==
    {RulePath, PlainPath,
     <<<<"r", "u", "l", "e", "s", "e", "t", "s">>, <<"g", "e", "n", "e", "r", "a", "l", ".", "m", "d">>>>,
     <<<<"r", "u", "l", "e", "s">>, <<"0", "1", "-", "g", "e", "n", "e", "r", "a", "l", ".", "m", "d", "c">>>>,
     <<<<"c", "o", "d", "e", "r", "u", "l", "e", "s">>, <<"0", "1", "-", "a", ".", "m", "d">>>>,
     <<<<"r", "u", "l", "e", "s">>, <<"0", "1", "-", "G", "e", "n", "e", "r", "a", "l", ".", "m", "d">>>>,
     <<<<"r", "u", "l", "e", "s">>, <<"1", "-", "a", ".", "m", "d">>>>,
     <<<<"r", "u", "l", "e", "s">>, <<"0", "1", "-", "a", ".", "t", "x", "t">>>>,
     <<<<"n", "o", "t", "e", "s">>, <<"g", "e", "n", "e", "r", "a", "l", ".", "m", "d">>>>,
     <<<<"n", "o", "t", "e", "s">>, <<"0", "1", "-", "a", ".", "m", "d", "c">>>>,
     <<<<"m", "y", "r", "u", "l", "e", "s", "-", "n", "o", "t", "e", "s">>, <<"x", ".", "m", "d">>>>,
     <<<<"s", "r", "c">>, <<"u", "n", "r", "u", "l", "e", "s", "e", "t", ".", "m", "d">>>>,
     <<<<"d", "o", "c", "s">>, <<"g", "u", "i", "d", "e", ".", "m", "d">>>>,
     <<<<"r", "u", "l", "e", "s">>, <<"d", "o", "c", "s">>, <<"0", "1", "-", "a", ".", "m", "d">>>>,
     <<<<"m", "y", "d", "o", "c", "s">>, <<"x", ".", "m", "d">>>>,
     <<<<"R", "E", "A", "D", "M", "E", ".", "m", "d">>>>,
     <<<<"r", "u", "l", "e", "s">>, <<"R", "E", "A", "D", "M", "E", ".", "m", "d">>>>,
     <<<<"n", "o", "t", "e", "s">>, <<"R", "E", "A", "D", "M", "E", ".", "m", "d">>>>,
     <<<<".", "c", "o", "n", "c", "i", "s", "e", "-", "r", "u", "l", "e", "s">>, <<"0", "1", "-", "a", ".", "m", "d">>>>,
     <<<<".", "c", "o", "n", "c", "i", "s", "e", "-", "r", "u", "l", "e", "s">>, <<"a", ".", "m", "d">>>>}

LintFiles ==
    {File(p, TRUE, TRUE, Text(d)) : p \in LintPaths, d \in FewDocs}
    \cup {File(p, TRUE, TRUE, Text(d)) :
            p \in {RulePath}, d \in HeadingDocs \cup FenceDocs}
    \cup {File(p, e, r, Text(GoodDoc)) : p \in LintPaths, e \in BOOLEAN, r \in BOOLEAN}

\* ---- the arguments lint-rules.py main is run with ----
MaxPaths == 3

\* a level 1 heading and one tagged code block: no error
RuleDoc == Text(<<Heading(1), Fence \o <<"p", "y">>, <<"x">>, Fence>>)
GoodMdc == File(MdcPath, TRUE, TRUE, RuleDoc)
GoodRule == File(RulePath, TRUE, TRUE, RuleDoc)
GoodPlain == File(PlainPath, TRUE, TRUE, RuleDoc)
BadName ==
    File(<<<<"r", "u", "l", "e", "s">>, <<"g", "e", "n", "e", "r", "a", "l", ".", "m", "d">>>>,
         TRUE, TRUE, RuleDoc)
Unreadable == File(<<<<"r", "u", "l", "e", "s">>, <<"0", "2", "-", "a", ".", "m", "d">>>>, TRUE, FALSE, <<>>)
Vanished == File(<<<<"r", "u", "l", "e", "s">>, <<"0", "3", "-", "a", ".", "m", "d">>>>, FALSE, FALSE, <<>>)
Readme == File(<<<<"r", "u", "l", "e", "s">>, <<"R", "E", "A", "D", "M", "E", ".", "m", "d">>>>, TRUE, TRUE, Text(<<Heading(2)>>))
DocsGuide == File(<<<<"d", "o", "c", "s">>, <<"g", "u", "i", "d", "e", ".", "m", "d">>>>, TRUE, TRUE, Text(<<Heading(2)>>))

\* the *.md files a scanned directory may hold, in a fixed order
MdPool == <<GoodRule, BadName, Unreadable, Vanished, Readme, DocsGuide, GoodPlain>>

\* the elements of a sequence at the positions in keep, in order
Choose(seq, keep) ==
    LET picked == SelectSeq([i \in 1..Len(seq) |-> i], LAMBDA i : i \in keep)
    IN  [k \in 1..Len(picked) |-> seq[picked[k]]]

NoFile == File(<<>>, FALSE, FALSE, <<>>)
MissingPath == Path("missing", NoFile, <<>>, <<>>)
OtherPath == Path("other", NoFile, <<>>, <<>>)
FilePath(f) == Path("file", f, <<>>, <<>>)
DirPath(mdc_files, md_files) == Path("dir", NoFile, mdc_files, md_files)

\* every directory over the pool, with or without an .mdc file
Directories ==
    {DirPath(m, Choose(MdPool, keep)) :
        m \in {<<>>, <<GoodMdc>>}, keep \in SUBSET (1..Len(MdPool))}

\* the paths of a run with several arguments
FewPaths ==
    {MissingPath, OtherPath, FilePath(GoodRule), FilePath(BadName),
     DirPath(<<GoodMdc>>, <<GoodRule>>), DirPath(<<>>, <<Readme, BadName, GoodRule>>)}

RulesArgv ==
    [path : {<<d>> : d \in Directories} \cup (SeqsUpTo(FewPaths, MaxPaths) \ {<<>>}),
     json : BOOLEAN]

\* ---- the check results generate-pr-report.py main scores ----
MaxWarnings == 21

RuleChecks ==
    {NoRules} \cup {RuleCheck(errs, Repeat("w", n)) :
                        errs \in {<<>>, <<"e">>}, n \in 0..MaxWarnings}
DocChecks == {DocCheck(c, u) : c \in BOOLEAN, u \in BOOLEAN}
ReductionValues ==
    {0 - 10 * Hundredths, 0, 50 * Hundredths - 1, 50 * Hundredths,
     70 * Hundredths - 1, 70 * Hundredths, 100 * Hundredths}
TokenChecks == {NotChecked} \cup {TokenCheck(r) : r \in ReductionValues}

ReportArgv == [rule_check : RuleChecks, doc_check : DocChecks, token_check : TokenChecks]

\* ---- the path validate-mdc.py main is run with ----
MdcDocument == <<EmptyPiece, MapPiece(MinimalMetadata), BodyPiece>>
MdcName(digit) == <<<<"r", "u", "l", "e", "s">>, <<"0", digit, "-", "a", ".", "m", "d", "c">>>>

\* the *.mdc files a scanned directory may hold, in a fixed order: a
\* valid one, one with a warning, one whose metadata do not parse, one
\* whose metadata hold an impossible date, one without frontmatter, one
\* that cannot be read, one that is gone
MdcPool ==
    <<File(MdcName("1"), TRUE, TRUE, MdcDocument),
      File(MdcName("2"), TRUE, TRUE, <<EmptyPiece, MapPiece(MinimalMetadata), WsPiece>>),
      File(MdcName("3"), TRUE, TRUE, <<EmptyPiece, BrokenPiece, BodyPiece>>),
      File(MdcName("7"), TRUE, TRUE, <<EmptyPiece, DatePiece, BodyPiece>>),
      File(MdcName("4"), TRUE, TRUE, <<BodyPiece>>),
      File(MdcName("5"), TRUE, FALSE, MdcDocument),
      File(MdcName("6"), FALSE, FALSE, MdcDocument)>>

MdcArgv ==
    {MissingPath, OtherPath}
    \cup {FilePath(MdcPool[i]) : i \in 1..Len(MdcPool)}
    \cup {DirPath(Choose(MdcPool, keep), <<>>) : keep \in SUBSET (1..Len(MdcPool))}

\* ---- the files and the system lint-md.py and format-md.py run on ----
MaxFiles == 2

MdClean == File(RulePath, TRUE, TRUE, Text(<<Heading(1)>>))
MdSkip ==
    File(<<<<"r", "u", "l", "e", "s">>, <<"0", "2", "-", "a", ".", "m", "d">>>>,
         TRUE, TRUE, Text(<<Heading(1), Heading(3)>>))
TxtFile == File(<<<<"n", "o", "t", "e", "s", ".", "t", "x", "t">>>>, TRUE, TRUE, Text(<<Heading(1)>>))

MdFilePool == {MdClean, MdSkip, Unreadable, Vanished, DocsGuide, TxtFile}

ProbeOutcomes ==
    {Exit(0), Exit(1), Exc("FileNotFoundError"), Exc("TimeoutExpired"), Exc("PermissionError")}
RunOutcomes ==
    {Exit(0), Exit(1), Exit(2), Exit(0 - 9),
     Exc("TimeoutExpired"), Exc("SubprocessError"), Exc("OSError")}

Env(probes, run, config_exists) ==
    [probes |-> probes, run |-> run, config_exists |-> config_exists]

\* every behaviour of the system
Envs ==
    {Env(<<p1, p2>>, r, c) :
        p1 \in ProbeOutcomes, p2 \in ProbeOutcomes, r \in RunOutcomes, c \in BOOLEAN}

\* some behaviours of the system: the linter answers and exits with 0
\* or 1, is absent, runs out of time, or cannot be started
FewEnvs ==
    {Env(<<Exit(0), Exit(0)>>, r, TRUE) :
        r \in {Exit(0), Exit(1), Exc("TimeoutExpired"), Exc("OSError")}}
    \cup {Env(<<Exc("FileNotFoundError"), Exc("FileNotFoundError")>>, Exit(0), FALSE)}

LinterArgv ==
    {[files |-> fs, check |-> c, env |-> v] :
        fs \in {<<MdClean>>, <<MdSkip, MdClean>>}, c \in BOOLEAN, v \in Envs}
    \cup {[files |-> fs, check |-> c, env |-> v] :
            fs \in SeqsUpTo(MdFilePool, MaxFiles) \ {<<>>}, c \in BOOLEAN, v \in FewEnvs}

(***************************************************************************)
(* The processes                                                           *)
(***************************************************************************)
\* MDCValidator.validate_file(file): resets self.errors and
\* self.warnings, fills them and returns them with the verdict
\* ---- the files migrate-to-mdc.py is run on ----
MaxTitleLen == 4
TitleChars == {"a", "-", " "}
Titled(title) == <<"#", " ">> \o title \o <<"\n">> \o <<"\n", "b", "\n">>
NotesPath == <<<<"r", "u", "l", "e", "s">>, <<"n", "o", "t", "e", "s", ".", "t", "x", "t">>>>
MigratePaths == {MdPath, NotesPath, MdcPath}
SomeContents ==
    {<<>>, Titled(<<"a">>), <<"#", " ", "a", "\r", "\n", "\r", "\n", "b", "\r", "\n">>, <<"-", "-", "-", "\n", "d", "e", "s", "c", "r", "i", "p", "t", "i", "o", "n", ":", " ", "a", "\n", "-", "-", "-", "\n", "b", "\n">>, <<"b", "\n">>,
     <<"#", " ", "a", "\n", "\n", "b", " ", "-", "-", "-", " ", "c", "\n">>}
OldTarget == OnDisk(<<"o", "l", "d", "\n">>)

DiskOf(md_file, source, target) ==
    [p \in {md_file, with_suffix(md_file, mdc_suffix)} |->
        IF p = md_file THEN source ELSE target]

MigrateEnv == [read_ok : BOOLEAN, write : {"ok", "open fails", "write fails"},
               partial : {0, 3}, unlink_ok : BOOLEAN]
AllWell == [read_ok |-> TRUE, write |-> "ok", partial |-> 0, unlink_ok |-> TRUE]

MigrateArgv ==
    {[md_file |-> p, dry_run |-> d, force |-> f, env |-> en, disk0 |-> DiskOf(p, s, t)] :
        p \in MigratePaths, d \in BOOLEAN, f \in BOOLEAN, en \in MigrateEnv,
        s \in {NotOnDisk} \cup {OnDisk(c) : c \in SomeContents},
        t \in {NotOnDisk, OldTarget}}
    \cup {[md_file |-> MdPath, dry_run |-> FALSE, force |-> FALSE, env |-> AllWell,
           disk0 |-> DiskOf(MdPath, OnDisk(Titled(title)), NotOnDisk)] :
            title \in SeqsUpTo(TitleChars, MaxTitleLen)}


\* ---- migrate-to-mdc.py on one file ----
md_file == argv.md_file
mdc_file == with_suffix(md_file, mdc_suffix)
Migrating(step) == script = "migrate-to-mdc" /\ pc = step /\ ret = NoCall

\* migrate_file up to the call of write_file: the checks, then
\* read_file and the conversion inside the try block
MigrateFile ==
    /\ Migrating(0)
    /\ Bind(migrate_checks(md_file, argv.dry_run, argv.force, disk), LAMBDA r :
        IF r # NoCall THEN ret' = r /\ pc' = 4
        ELSE IF ~argv.env.read_ok THEN ret' = Returned(FALSE) /\ pc' = 4
        ELSE ret' = NoCall /\ pc' = 1)
    /\ UNCHANGED <<script, file, errors, warnings, argv, all_valid, stdout, calls, disk, heap, returns>>

\* write_file: the parent directory is there; open(file_path, "w")
\* creates the file or empties it
WriteFileOpen ==
    /\ Migrating(1)
    /\ IF argv.env.write = "open fails"
       THEN ret' = Returned(FALSE) /\ pc' = 4 /\ disk' = disk
       ELSE ret' = NoCall /\ pc' = 2 /\ disk' = [disk EXCEPT ![mdc_file] = OnDisk(<<>>)]
    /\ UNCHANGED <<script, file, errors, warnings, argv, all_valid, stdout, calls, heap, returns>>

\* write_file: f.write(content) and the close of the file; a write
\* that fails leaves a first part of the content
WriteFileWrite ==
    /\ Migrating(2)
    /\ IF argv.env.write = "write fails"
       THEN /\ ret' = Returned(FALSE) /\ pc' = 4
            /\ disk' = [disk EXCEPT ![mdc_file] =
                            OnDisk(SubSeq(os_linesep(converted(md_file, disk)), 1, argv.env.partial))]
       ELSE /\ ret' = NoCall /\ pc' = 3
            /\ disk' = [disk EXCEPT ![mdc_file] = OnDisk(os_linesep(converted(md_file, disk)))]
    /\ UNCHANGED <<script, file, errors, warnings, argv, all_valid, stdout, calls, heap, returns>>

\* md_file.unlink() and the return of migrate_file
Unlink ==
    /\ Migrating(3)
    /\ IF argv.env.unlink_ok
       THEN ret' = Returned(TRUE) /\ pc' = 4 /\ disk' = [disk EXCEPT ![md_file] = NotOnDisk]
       ELSE ret' = Returned(FALSE) /\ pc' = 4 /\ disk' = disk
    /\ UNCHANGED <<script, file, errors, warnings, argv, all_valid, stdout, calls, heap, returns>>

\* validate-mdc.py on the file a migration has written
ValidateMigrated ==
    /\ script = "migrate-to-mdc" /\ pc = 4
    /\ ret = Returned(TRUE) /\ ~argv.dry_run
    /\ Bind(File(mdc_file, disk[mdc_file].exists, TRUE,
                 mdc_pieces(universal_newlines(disk[mdc_file].content))), LAMBDA written :
       Bind(validate_file(written), LAMBDA r :
        /\ file' = written
        /\ all_valid' = (r.status = "returned" /\ r.value[1])
        /\ errors' = IF r.status = "returned" THEN r.value[2] ELSE <<>>
        /\ warnings' = IF r.status = "returned" THEN r.value[3] ELSE <<>>))
    /\ pc' = 5
    /\ UNCHANGED <<script, ret, argv, stdout, calls, disk, heap, returns>>

ValidateFile ==
    /\ script = "validate-mdc"
    /\ LET r == validate_file(file) IN
        /\ ret' = r
        /\ errors' = IF r.status = "returned" THEN r.value[2] ELSE <<>>
        /\ warnings' = IF r.status = "returned" THEN r.value[3] ELSE <<>>
    /\ UNCHANGED <<script, file, argv, pc, all_valid, stdout, calls, disk, heap, returns>>

\* RuleLinter.check_file(file): the skip of an exempt file returns new
\* empty lists, every other path returns self.errors and self.warnings
CheckFile ==
    /\ script = "lint-rules"
    /\ LET r == check_file(file) IN
        /\ ret' = r
        /\ errors' = r.value[2]
        /\ warnings' = r.value[3]
    /\ UNCHANGED <<script, file, argv, pc, all_valid, stdout, calls, disk, heap, returns>>

\* check_project_specific_rules(file) of lint-md.py
CheckProjectSpecificRules ==
    /\ script = "lint-md"
    /\ ret' = check_project_specific_rules(file)
    /\ UNCHANGED <<script, file, errors, warnings, argv, pc, all_valid, stdout, calls, disk, heap, returns>>

\* a process of per-file calls runs no main
NoMain ==
    /\ argv = <<>>
    /\ pc = 0
    /\ all_valid = TRUE
    /\ stdout = <<>>
    /\ calls = <<>>
    /\ disk = <<>>
    /\ heap = <<>>
    /\ returns = <<>>

\* main of lint-rules.py, one iteration of "for path in paths"
MainPath ==
    /\ script = "lint-rules main"
    /\ ret = NoCall
    /\ pc <= Len(argv.path)
    /\ Bind(main_path(argv.path[pc], argv.json), LAMBDA r :
        IF r.status = "raised"
        THEN /\ ret' = r
             /\ UNCHANGED <<pc, all_valid, stdout>>
        ELSE /\ all_valid' = accumulate(all_valid, r.value[1])
             /\ stdout' = Append(stdout, r.value[2])
             /\ pc' = pc + 1
             /\ UNCHANGED ret)
    /\ UNCHANGED <<script, file, errors, warnings, argv, calls, disk, heap, returns>>

\* main of lint-rules.py after the loop: return 0 if all_valid else 1
MainReturn ==
    /\ script = "lint-rules main"
    /\ ret = NoCall
    /\ pc > Len(argv.path)
    /\ ret' = Returned(exit_code(all_valid))
    /\ UNCHANGED <<script, file, errors, warnings, argv, pc, all_valid, stdout, calls, disk, heap, returns>>

\* a run of main has no per-file state of its own
NoFileCall ==
    /\ file = NoFile
    /\ errors = <<>>
    /\ warnings = <<>>
    /\ ret = NoCall

InitRulesMain ==
    /\ script = "lint-rules main"
    /\ NoFileCall
    /\ argv \in RulesArgv
    /\ pc = 1
    /\ all_valid = TRUE
    /\ stdout = <<>>
    /\ calls = <<>>
    /\ disk = <<>>
    /\ heap = <<>>
    /\ returns = <<>>

\* main of generate-pr-report.py from the three check results on: the
\* score, the report and the exit code
GenerateReport ==
    /\ script = "generate-pr-report main"
    /\ ret = NoCall
    /\ LET quality_score ==
            calculate_quality_score(argv.rule_check, argv.doc_check, argv.token_check)
       IN  /\ stdout' = <<[kind |-> "report", quality_score |-> quality_score]>>
           /\ ret' = Returned(report_exit_code(quality_score))
    /\ UNCHANGED <<script, file, errors, warnings, argv, pc, all_valid, calls, disk, heap, returns>>

InitReport ==
    /\ script = "generate-pr-report main"
    /\ NoFileCall
    /\ argv \in ReportArgv
    /\ pc = 0
    /\ all_valid = TRUE
    /\ stdout = <<>>
    /\ calls = <<>>
    /\ disk = <<>>
    /\ heap = <<>>
    /\ returns = <<>>

\* main of validate-mdc.py on its path argument
ValidateMain ==
    /\ script = "validate-mdc main"
    /\ ret = NoCall
    /\ Bind(validate_main(argv.path), LAMBDA r :
        /\ ret' = r.ret
        /\ stdout' = r.out)
    /\ UNCHANGED <<script, file, errors, warnings, argv, pc, all_valid, calls, disk, heap, returns>>

InitMdcMain ==
    /\ script = "validate-mdc main"
    /\ NoFileCall
    /\ argv \in [path : MdcArgv]
    /\ pc = 0
    /\ all_valid = TRUE
    /\ stdout = <<>>
    /\ calls = <<>>
    /\ disk = <<>>
    /\ heap = <<>>
    /\ returns = <<>>

\* lint_markdown_files(args.files) of lint-md.py
LintMarkdownFiles ==
    /\ script = "lint-md main"
    /\ ret = NoCall
    /\ Bind(lint_markdown_files(argv.files, argv.env), LAMBDA r :
        /\ ret' = r.ret
        /\ calls' = r.calls
        /\ stdout' = r.out)
    /\ UNCHANGED <<script, file, errors, warnings, argv, pc, all_valid, disk, heap, returns>>

\* main of format-md.py
FormatMain ==
    /\ script = "format-md main"
    /\ ret = NoCall
    /\ Bind(format_main(argv.files, argv.check, argv.env), LAMBDA r :
        /\ ret' = r.ret
        /\ calls' = r.calls
        /\ stdout' = r.out)
    /\ UNCHANGED <<script, file, errors, warnings, argv, pc, all_valid, disk, heap, returns>>

InitLinter ==
    /\ script \in {"lint-md main", "format-md main"}
    /\ NoFileCall
    /\ argv \in LinterArgv
    /\ pc = 0
    /\ all_valid = TRUE
    /\ stdout = <<>>
    /\ calls = <<>>
    /\ disk = <<>>
    /\ heap = <<>>
    /\ returns = <<>>

InitMigrate ==
    /\ script = "migrate-to-mdc"
    /\ NoFileCall
    /\ argv \in MigrateArgv
    /\ pc = 0
    /\ all_valid = TRUE
    /\ stdout = <<>>
    /\ calls = <<>>
    /\ disk = argv.disk0
    /\ heap = <<>>
    /\ returns = <<>>

\* ---- successive calls on one RuleLinter or MDCValidator instance ----
MaxCalls == 3

DeepRule ==
    File(RulePath, TRUE, TRUE,
         Text(<<Heading(1), Heading(3), Heading(5), Fence, <<"a">>, Fence>>))
LinterFiles == {GoodRule, BadName, Vanished, Readme, DeepRule}
ValidatorFiles == {MdcPool[i] : i \in 1..5}

\* "self.errors = []": the attribute is bound to a new, empty list
keep_list(h, attr) == [heap |-> h, ref |-> attr]
reset_list(h, attr) == [heap |-> Append(h, <<>>), ref |-> Len(h) + 1]

\* list.append and list.extend on the list at an address
list_extend(h, ref, items) == [h EXCEPT ![ref] = @ \o items]

\* the tuple a call returns: the lists are given by their addresses
ResultOf(valid, errs, warns) ==
    [status |-> "returned", valid |-> valid, errors |-> errs, warnings |-> warns]
NoResult == [status |-> "raised", valid |-> FALSE, errors |-> 0, warnings |-> 0]

\* one call of a method that binds self.errors and self.warnings to new
\* lists, fills them with the findings r and returns them; returns_new
\* tells that the return statement builds two lists of its own
MethodCall(r, returns_new) ==
    Bind(reset_list(heap, errors), LAMBDA e :
    Bind(reset_list(e.heap, warnings), LAMBDA w :
        /\ errors' = e.ref
        /\ warnings' = w.ref
        /\ IF r.status = "raised"
           THEN heap' = w.heap /\ returns' = Append(returns, NoResult)
           ELSE IF returns_new
                THEN /\ heap' = w.heap \o <<r.value[2], r.value[3]>>
                     /\ returns' = Append(returns,
                            ResultOf(r.value[1], Len(w.heap) + 1, Len(w.heap) + 2))
           ELSE /\ heap' = list_extend(list_extend(w.heap, e.ref, r.value[2]),
                                       w.ref, r.value[3])
                /\ returns' = Append(returns, ResultOf(r.value[1], e.ref, w.ref))))

\* linter.check_file(argv[pc + 1]) on the instance of this process; the
\* skip of an exempt file returns "True, [], []"
CheckFileAgain ==
    /\ script = "lint-rules instance"
    /\ pc < Len(argv)
    /\ Bind(check_file(argv[pc + 1]), LAMBDA r :
        /\ MethodCall(r, argv[pc + 1].exists /\ rules_exempt(argv[pc + 1].path))
        /\ ret' = r)
    /\ pc' = pc + 1
    /\ UNCHANGED <<script, file, argv, all_valid, stdout, calls, disk>>

\* validator.validate_file(argv[pc + 1]) on the instance of this process
ValidateFileAgain ==
    /\ script = "validate-mdc instance"
    /\ pc < Len(argv)
    /\ Bind(validate_file(argv[pc + 1]), LAMBDA r :
        /\ MethodCall(r, FALSE)
        /\ ret' = r)
    /\ pc' = pc + 1
    /\ UNCHANGED <<script, file, argv, all_valid, stdout, calls, disk>>

\* __init__ binds self.errors and self.warnings to two empty lists
InitInstance ==
    /\ \/ script = "lint-rules instance" /\ argv \in SeqsUpTo(LinterFiles, MaxCalls)
       \/ script = "validate-mdc instance" /\ argv \in SeqsUpTo(ValidatorFiles, MaxCalls)
    /\ file = NoFile
    /\ ret = NoCall
    /\ heap = <<<<>>, <<>>>>
    /\ errors = 1
    /\ warnings = 2
    /\ returns = <<>>
    /\ pc = 0
    /\ all_valid = TRUE
    /\ stdout = <<>>
    /\ calls = <<>>
    /\ disk = <<>>

\* ---- the change sets generate-pr-report.py is run on ----
TopFile(name, doc) == File(<<name>>, TRUE, TRUE, Text(doc))
Changelog == TopFile(<<"C", "H", "A", "N", "G", "E", "L", "O", "G", ".", "m", "d">>, <<Heading(1)>>)
TopReadme == TopFile(<<"R", "E", "A", "D", "M", "E", ".", "m", "d">>, <<Heading(1)>>)
MyReadme == File(<<<<"r", "u", "l", "e", "s">>, <<"M", "Y", "R", "E", "A", "D", "M", "E", ".", "m", "d">>>>, TRUE, TRUE, RuleDoc)
Script == TopFile(<<"a", ".", "p", "y">>, <<>>)
\* a rule that passes with warnings: a heading of level 4, one example
WarnRule ==
    File(<<<<"r", "u", "l", "e", "s">>, <<"0", "4", "-", "a", ".", "m", "d">>>>, TRUE, TRUE,
         Text(<<Heading(1), Heading(2), Heading(3), Heading(4),
                Fence \o <<"p", "y">>, <<"x">>, Fence>>))
NestedDocs == File(<<<<"r", "u", "l", "e", "s">>, <<"d", "o", "c", "s">>, <<"0", "1", "-", "a", ".", "m", "d">>>>, TRUE, TRUE, Text(<<Heading(2)>>))

ChangedPool ==
    <<Changelog, TopReadme, MyReadme, Script, WarnRule, DeepRule, GoodRule, DocsGuide,
      NestedDocs, Vanished, Unreadable>>

ChangesArgv ==
    {[added |-> Choose(ChangedPool, keep \cap (1..first)),
      modified |-> Choose(ChangedPool, keep \ (1..first)),
      python_ok |-> p, token_check |-> t] :
        keep \in SUBSET (1..Len(ChangedPool)), first \in {0, 5},
        p \in BOOLEAN, t \in {NotChecked, TokenCheck(60 * Hundredths)}}

\* main of generate-pr-report.py from the changed files on: the checks,
\* the score, the exit code
ReportOnChanges ==
    /\ script = "generate-pr-report changes"
    /\ ret = NoCall
    /\ Bind(argv.added \o argv.modified, LAMBDA all_changed :
       Bind(check_rule_files(all_changed, argv.python_ok), LAMBDA rule_check :
       Bind(check_documentation(all_changed), LAMBDA doc_check :
       Bind(calculate_quality_score(rule_check, doc_check, argv.token_check),
            LAMBDA quality_score :
        /\ stdout' = <<[kind |-> "report", rule_check |-> rule_check,
                        doc_check |-> doc_check, quality_score |-> quality_score]>>
        /\ calls' = rule_runs(all_changed)
        /\ ret' = Returned(report_exit_code(quality_score))))))
    /\ UNCHANGED <<script, file, errors, warnings, argv, pc, all_valid, disk, heap, returns>>

InitChanges ==
    /\ script = "generate-pr-report changes"
    /\ NoFileCall
    /\ argv \in ChangesArgv
    /\ pc = 0
    /\ all_valid = TRUE
    /\ stdout = <<>>
    /\ calls = <<>>
    /\ disk = <<>>
    /\ heap = <<>>
    /\ returns = <<>>

InitMdc ==
    /\ script = "validate-mdc"
    /\ file \in MdcFiles
    /\ errors = <<>>
    /\ warnings = <<>>
    /\ ret = NoCall
    /\ NoMain

InitLint ==
    /\ script \in {"lint-rules", "lint-md"}
    /\ file \in LintFiles
    /\ errors = <<>>
    /\ warnings = <<>>
    /\ ret = NoCall
    /\ NoMain

Init ==
    InitMdc \/ InitLint \/ InitRulesMain \/ InitReport \/ InitMdcMain \/ InitLinter
    \/ InitMigrate \/ InitInstance \/ InitChanges

Next ==
    \/ ValidateFile
    \/ CheckFile
    \/ CheckProjectSpecificRules
    \/ MainPath
    \/ MainReturn
    \/ GenerateReport
    \/ ValidateMain
    \/ LintMarkdownFiles
    \/ FormatMain
    \/ MigrateFile
    \/ WriteFileOpen
    \/ WriteFileWrite
    \/ Unlink
    \/ ValidateMigrated
    \/ CheckFileAgain
    \/ ValidateFileAgain
    \/ ReportOnChanges

Spec == Init /\ [][Next]_vars

NextMdc == ValidateFile
SpecMdc == InitMdc /\ [][NextMdc]_vars

NextLint == CheckFile \/ CheckProjectSpecificRules
SpecLint == InitLint /\ [][NextLint]_vars

NextLinter == LintMarkdownFiles \/ FormatMain
SpecLinter == InitLinter /\ [][NextLinter]_vars

\* the sweeps over several files: the directory modes of lint-rules.py
\* and validate-mdc.py, the project checks of lint-md.py
InitSweep == InitRulesMain \/ InitMdcMain \/ (InitLinter /\ script = "lint-md main")
NextSweep == MainPath \/ MainReturn \/ ValidateMain \/ LintMarkdownFiles
SpecSweep == InitSweep /\ [][NextSweep]_vars

NextMigrate == MigrateFile \/ WriteFileOpen \/ WriteFileWrite \/ Unlink \/ ValidateMigrated
SpecMigrate == InitMigrate /\ [][NextMigrate]_vars

NextInstance == CheckFileAgain \/ ValidateFileAgain
SpecInstance == InitInstance /\ [][NextInstance]_vars

NextChanges == ReportOnChanges
SpecChanges == InitChanges /\ [][NextChanges]_vars

NextReport == GenerateReport
SpecReport == InitReport /\ [][NextReport]_vars

NextRulesMain == MainPath \/ MainReturn
SpecRulesMain == InitRulesMain /\ [][NextRulesMain]_vars

(***************************************************************************)
(* Properties                                                              *)
(***************************************************************************)
Called == ret.status # "none"
ReturnedOk == ret.status = "returned"

\* the elements of a sequence
Range(s) == {s[i] : i \in 1..Len(s)}

\* C1: every result of MDCValidator.validate_file and of
\* RuleLinter.check_file comes back with valid true exactly when its
\* error list is empty, whatever the warnings are.
C1_ValidIffNoErrors ==
    (script \in {"validate-mdc", "lint-rules"} /\ ReturnedOk) =>
        (ret.value[1] <=> (ret.value[2] = <<>>))

\* a valid result that carries warnings
C1_Witness ==
    /\ script = "lint-rules"
    /\ ReturnedOk
    /\ ret.value[1]
    /\ ret.value[3] # <<>>

\* the file reaches the frontmatter check of validate_file
MdcRead == file.exists /\ path_suffix(file.path) = mdc_suffix /\ file.readable

\* the text has no leading marker, or no second marker, or its metadata
\* block does not parse, or parses to something that is no mapping
PreSchemaFailure(content) ==
    \/ content[1].s # "empty"
    \/ Len(content) < 3
    \/ content[2].load.kind # "dict"

\* C2: a failure before the schema check is terminal: the call returns
\* (no exception escapes) an invalid result with exactly one error and
\* no warning, so neither the schema nor the body was checked.
C2_PreSchemaTerminal ==
    (script = "validate-mdc" /\ Called /\ MdcRead /\ PreSchemaFailure(file.content)) =>
        /\ ReturnedOk
        /\ ret.value[1] = FALSE
        /\ Len(ret.value[2]) = 1
        /\ ret.value[2][1].field = ""
        /\ ret.value[3] = <<>>

\* a metadata block that fails to parse, behind two markers and followed
\* by an empty body, was validated
C2_Witness ==
    /\ script = "validate-mdc"
    /\ Called
    /\ MdcRead
    /\ Len(file.content) = 3
    /\ file.content[1].s = "empty"
    /\ file.content[2].load.kind = "YAMLError"
    /\ file.content[3].s = "ws"

\* the mapping the frontmatter of the file parses to
Metadata == file.content[2].load.m

ParsesToMapping ==
    /\ script = "validate-mdc"
    /\ MdcRead
    /\ ~PreSchemaFailure(file.content)

RequiredType(key) ==
    IF key = "description" THEN "str" ELSE IF key = "globs" THEN "list" ELSE "bool"

C3_Keys == <<"description", "globs", "alwaysApply">>

C3_Missing(m) ==
    LET absent == SelectSeq(C3_Keys, LAMBDA k : m[k].ty = "absent")
    IN  [i \in 1..Len(absent) |-> E("missing required field", absent[i])]

C3_WrongType(m) ==
    LET wrong == SelectSeq(C3_Keys,
                     LAMBDA k : m[k].ty # "absent" /\ m[k].ty # RequiredType(k))
    IN  [i \in 1..Len(wrong) |-> wrong[i]]

\* C3: on a frontmatter that parses to a mapping the error list is one
\* "missing required field" error per absent required key, in the order
\* description, globs, alwaysApply, followed by one type error per
\* present required key of the wrong type; the result is invalid exactly
\* when there is such an error.
C3_SchemaErrors ==
    (ParsesToMapping /\ Called) =>
        LET missing == C3_Missing(Metadata)
            wrong == C3_WrongType(Metadata)
            errs == ret.value[2]
        IN  /\ ReturnedOk
            /\ Len(errs) = Len(missing) + Len(wrong)
            /\ SubSeq(errs, 1, Len(missing)) = missing
            /\ \A i \in 1..Len(wrong) :
                    /\ errs[Len(missing) + i].field = wrong[i]
                    /\ errs[Len(missing) + i].msg # "missing required field"
            /\ ret.value[1] <=> (missing = <<>> /\ wrong = <<>>)

\* a mapping with absent keys and a key of the wrong type was validated:
\* every error is reported, not only the first
C3_Witness ==
    /\ ParsesToMapping
    /\ Called
    /\ Metadata["description"].ty = "absent"
    /\ Metadata["globs"].ty = "str"
    /\ Metadata["alwaysApply"].ty = "absent"
    /\ Len(ret.value[2]) = 3

WellTyped(m) == \A i \in 1..Len(C3_Keys) : m[C3_Keys[i]].ty = RequiredType(C3_Keys[i])

\* text of the form MAJOR.MINOR.PATCH: three runs of digits and two dots
IsMajorMinorPatch(s) ==
    \E i, j \in 1..Len(s) :
        /\ 1 < i /\ i + 1 < j /\ j < Len(s)
        /\ \A k \in 1..Len(s) : IF k \in {i, j} THEN s[k] = "." ELSE IsDigit(s[k])

When(cond, e) == IF cond THEN {e} ELSE {}

\* the advisory conditions that hold of the file
C4_Advisories(m, content) ==
    When(m.globs.v = <<>>, E("empty list", "globs"))
    \cup When(Len(m.description.v) > 200, E("longer than 200 characters", "description"))
    \cup When(m.tags.ty \notin {"absent", "list"}, E("should be a list", "tags"))
    \cup When(m.tags.ty = "list" /\ m.tags.v = <<>>, E("empty list", "tags"))
    \cup When(m.version.ty \notin {"absent", "str"}, E("should be a string", "version"))
    \cup When(m.version.ty = "str" /\ ~IsMajorMinorPatch(m.version.v),
              E("not SemVer", "version"))
    \cup When(Len(content) = 3 /\ content[3].s \in {"empty", "ws"},
              E("empty content", "body"))

Exempt(path) == docs \in path_parts(path) \/ path_name(path) = README_md
LintRead == file.exists /\ file.readable /\ ~Exempt(file.path)

\* the findings of one kind in the result of the last call
ErrorsOf(kind) ==
    IF script = "lint-md" THEN SelectSeq(ret.value, LAMBDA x : x.kind = kind)
    ELSE SelectSeq(ret.value[2], LAMBDA x : x.kind = kind)
WarningsOf(kind) ==
    IF script = "lint-md" THEN <<>>
    ELSE SelectSeq(ret.value[3], LAMBDA x : x.kind = kind)

\* the heading levels the running script extracts from the text
Headers == IF script = "lint-md" THEN md_headers(file.content) ELSE rules_headers(file.content)

\* the level a heading is compared with: that of the heading before it,
\* level 0 for the first heading
Preceding(levels, i) == IF i = 1 THEN 0 ELSE levels[i - 1]

\* index of every heading whose level exceeds the preceding level + 1
Skips(levels) ==
    SelectSeq([i \in 1..Len(levels) |-> i],
              LAMBDA i : levels[i] > Preceding(levels, i) + 1)

\* C5: the heading-skip predicate yields exactly one error per heading
\* whose level exceeds the preceding level + 1, the first heading being
\* compared against level 0, in lint-rules.py and in lint-md.py alike.
C5_SkipPerHeading ==
    (script \in {"lint-rules", "lint-md"} /\ Called /\ LintRead) =>
        LET skips == Skips(Headers)
            found == ErrorsOf("skip")
        IN  /\ Len(found) = Len(skips)
            /\ \A k \in 1..Len(skips) :
                    found[k].args = <<Preceding(Headers, skips[k]), Headers[skips[k]]>>

NoJump(levels) == \A i \in 2..Len(levels) : levels[i] <= levels[i - 1] + 1
NoneDeeperThan(levels, n) == \A i \in 1..Len(levels) : levels[i] <= n

\* position at which the line after the one holding position i starts
NextLine(s, i) == LineEnd(s, i) + 1

\* number of backticks a line that starts at i begins with
FenceRun(s, i) == RunEnd(s, i, {Backtick}) - i

\* the line at i opens a fenced block: three or more backticks, and no
\* backtick in what follows them on the line
OpensFence(s, i) ==
    /\ FenceRun(s, i) >= 3
    /\ \A k \in (i + FenceRun(s, i))..(LineEnd(s, i) - 1) : s[k] # Backtick

\* the line at i closes a block opened by n backticks: at least n
\* backticks and nothing but blanks after them
ClosesFence(s, i, n) ==
    /\ FenceRun(s, i) >= n
    /\ \A k \in (i + FenceRun(s, i))..(LineEnd(s, i) - 1) : s[k] \in {" ", "\t"}

RECURSIVE OutsideHeadings(_, _, _)
\* levels of the heading lines of s from the line at i on that lie
\* outside every fenced block; open is the length of the fence that is
\* open at i, 0 when none is (a block left open runs to the end)
OutsideHeadings(s, i, open) ==
    IF i > Len(s) THEN <<>>
    ELSE IF open = 0
         THEN IF OpensFence(s, i) THEN OutsideHeadings(s, NextLine(s, i), FenceRun(s, i))
              ELSE (IF header_at(s, i) # 0 THEN <<header_at(s, i)>> ELSE <<>>)
                   \o OutsideHeadings(s, NextLine(s, i), 0)
    ELSE IF ClosesFence(s, i, open) THEN OutsideHeadings(s, NextLine(s, i), 0)
    ELSE OutsideHeadings(s, NextLine(s, i), open)

DocumentHeadings == OutsideHeadings(file.content, 1, 0)

\* C6 as stated: a document whose headings outside code fences are all
\* of level 4 or shallower and never increase by more than one level gets
\* no heading-depth and no heading-skip finding, error or warning, from
\* lint-md.py and from lint-rules.py.
C6_NoFindingsUpToLevel4 ==
    (script \in {"lint-rules", "lint-md"} /\ Called /\ LintRead
     /\ NoneDeeperThan(DocumentHeadings, 4) /\ NoJump(DocumentHeadings)) =>
        /\ ErrorsOf("too deep") = <<>>
        /\ ErrorsOf("skip") = <<>>
        /\ WarningsOf("deep") = <<>>

\* C6 amended: when the headings a tool extracts are all of level 4 or
\* shallower and never increase by more than one level from one heading
\* to the next, lint-md.py reports no depth and no skip error;
\* lint-rules.py reports no depth error, a skip error exactly for a first
\* heading of level 2 or deeper, and its depth warning exactly when the
\* deepest heading is of level 4.
C6_Amended ==
    (script \in {"lint-rules", "lint-md"} /\ Called /\ LintRead
     /\ NoneDeeperThan(Headers, 4) /\ NoJump(Headers)) =>
        /\ ErrorsOf("too deep") = <<>>
        /\ script = "lint-md" => ErrorsOf("skip") = <<>>
        /\ script = "lint-rules" =>
            /\ Len(ErrorsOf("skip")) = (IF Headers # <<>> /\ Headers[1] >= 2 THEN 1 ELSE 0)
            /\ Len(WarningsOf("deep")) = (IF ~NoneDeeperThan(Headers, 3) THEN 1 ELSE 0)

\* lint-rules.py checked headings of levels 1, 2, 3, 4: no error of
\* depth or skip, and the depth warning
C6_Witness ==
    /\ script = "lint-rules"
    /\ Called
    /\ LintRead
    /\ Headers = <<1, 2, 3, 4>>
    /\ ErrorsOf("too deep") = <<>>
    /\ ErrorsOf("skip") = <<>>
    /\ Len(WarningsOf("deep")) = 1

\* C7: when every heading-like line of the text lies inside a fenced
\* code block, the heading list extracted after fence stripping is empty.
C7_FencedHeadingsIgnored ==
    (script \in {"lint-rules", "lint-md"} /\ Called /\ LintRead
     /\ DocumentHeadings = <<>>) =>
        Headers = <<>>

\* a part of the path equals one of the rule directory keywords
Candidate(path) == \E k \in 1..Len(RULE_FILE_KEYWORDS) : RULE_FILE_KEYWORDS[k] \in path_parts(path)

\* C8: the check of a file that is not exempt reports a filename error
\* exactly when the file is a candidate rule file whose name does not
\* match ^\d{2}-[a-z0-9-]+\.(md|mdc)$, in lint-md.py and lint-rules.py.
C8_FilenameError ==
    (script \in {"lint-rules", "lint-md"} /\ Called /\ LintRead) =>
        (ErrorsOf("filename") # <<>>) <=>
            (Candidate(file.path) /\ ~filename_match(path_name(file.path), {<<"m", "d">>, <<"m", "d", "c">>}))

\* C9: is_rule_file(path) holds exactly when a part of the path equals
\* one of the keywords rulesets, rules, coderules.
C9_SegmentEquality ==
    script = "lint-md" => (is_rule_file(file.path) <=> Candidate(file.path))

\* C10: for an existing exempt file (a docs part in its path, or named
\* README.md) check_file and check_project_specific_rules return a valid
\* result without any error or warning.
C10_ExemptFileValid ==
    (script \in {"lint-rules", "lint-md"} /\ Called /\ file.exists /\ Exempt(file.path)) =>
        IF script = "lint-md" THEN ret.value = <<>>
        ELSE ret.value = <<TRUE, <<>>, <<>>>>

\* the text that follows the backticks on the fence line at i
FenceTag(s, i) == SubSeq(s, i + FenceRun(s, i), LineEnd(s, i) - 1)

RECURSIVE FencedBlocks(_, _, _)
\* the tags of the fenced blocks of s from the line at i on, one per
\* block in document order (the line that opens a block gives its tag,
\* the line that closes it gives none); open as in OutsideHeadings
FencedBlocks(s, i, open) ==
    IF i > Len(s) THEN <<>>
    ELSE IF open = 0
         THEN IF OpensFence(s, i)
              THEN <<FenceTag(s, i)>> \o FencedBlocks(s, NextLine(s, i), FenceRun(s, i))
              ELSE FencedBlocks(s, NextLine(s, i), 0)
    ELSE IF ClosesFence(s, i, open) THEN FencedBlocks(s, NextLine(s, i), 0)
    ELSE FencedBlocks(s, NextLine(s, i), open)

\* 1-based ordinals of the blocks without a tag
Untagged(blocks) ==
    SelectSeq([i \in 1..Len(blocks) |-> i], LAMBDA i : blocks[i] = <<>>)

\* C12: check_code_block_language_tags returns at most one error, one
\* exactly when a fenced block of the document has no language tag, and
\* the error names the ordinals, among the fenced blocks in document
\* order, of the untagged blocks (the first five at most); a closing
\* fence is no block, so a document whose blocks all carry a tag gets no
\* finding.
C12_UntaggedBlockPositions ==
    (script = "lint-md" /\ Called /\ LintRead) =>
        LET untagged == Untagged(FencedBlocks(file.content, 1, 0))
            found == ErrorsOf("no language tag")
        IN  /\ Len(found) <= 1
            /\ (found # <<>>) <=> (untagged # <<>>)
            /\ found # <<>> =>
                found[1].args = SubSeq(untagged, 1, Min(5, Len(untagged)))

\* ---- main of lint-rules.py ----
\* the files of a scanned directory that are not exempt, and those of
\* them whose check reports at least one error
NonExempt(directory) ==
    SelectSeq(all_files(directory), LAMBDA f : ~Exempt(f.path))
WithErrors(directory) ==
    SelectSeq(NonExempt(directory), LAMBDA f : check_file(f).value[2] # <<>>)

\* the paths of the run that were scanned as directories so far
ScannedDirs == {k \in 1..Len(stdout) : argv.path[k].kind = "dir"}

\* C11: in directory mode every enumerated file yields one recorded
\* result; an exempt file is recorded as valid with empty findings and
\* is counted in total and passed.
C11_ExemptRecorded ==
    script = "lint-rules main" =>
        \A k \in ScannedDirs :
            LET files == all_files(argv.path[k]) IN
            IF argv.json
            THEN /\ stdout[k].summary.total = Len(files)
                 /\ \A i \in 1..Len(files) :
                        Exempt(files[i].path) =>
                            FileOutput(files[i], <<TRUE, <<>>, <<>>>>) \in Range(stdout[k].results)
            ELSE stdout[k].pass_count + stdout[k].fail_count = Len(files)

\* C13: a scan of a directory with N files that are not exempt, K of
\* them with at least one error, counts failed = K and passed = N - K
\* in the text counts and in the JSON summary (total = N), and a run on
\* that directory alone exits with 1 exactly when K > 0.
C13_DirectoryCounts ==
    script = "lint-rules main" =>
        /\ \A k \in ScannedDirs :
            LET N == Len(NonExempt(argv.path[k]))
                K == Len(WithErrors(argv.path[k]))
            IN  IF argv.json
                THEN stdout[k].summary = [total |-> N, passed |-> N - K, failed |-> K]
                ELSE /\ stdout[k].fail_count = K
                     /\ stdout[k].pass_count = N - K
        /\ (ret # NoCall /\ Len(argv.path) = 1 /\ argv.path[1].kind = "dir") =>
                ret = Returned(IF Len(WithErrors(argv.path[1])) > 0 THEN 1 ELSE 0)

\* a JSON scan of a directory with two failing and two passing files
\* ended with exit code 1
C13_Witness ==
    /\ script = "lint-rules main"
    /\ argv.json
    /\ Len(argv.path) = 1
    /\ argv.path[1].kind = "dir"
    /\ ret = Returned(1)
    /\ stdout[1].summary = [total |-> 4, passed |-> 2, failed |-> 2]

\* the path is missing, or of no valid type, or a file found invalid,
\* or a directory with a checked file found invalid
FailingPath(path) ==
    \/ path.kind \in {"missing", "other"}
    \/ path.kind = "file" /\ ~check_file(path.target).value[1]
    \/ path.kind = "dir" /\ \E i \in 1..Len(NonExempt(path)) :
                                ~check_file(NonExempt(path)[i]).value[1]

\* the report that main writes for a path of the given kind
ReportOf(path, entry) ==
    CASE path.kind = "file" -> entry.kind = "file" /\ entry.result.file = path_str(path.target.path)
      [] path.kind = "dir" -> entry.kind = IF argv.json THEN "results" ELSE "counts"
      [] path.kind = "missing" -> entry = [kind |-> "stderr", msg |-> "path does not exist"]
      [] path.kind = "other" -> entry = [kind |-> "stderr", msg |-> "invalid path type"]

\* C14: main handles every path argument in order, whatever became of
\* the paths before it, and returns 1 exactly when some path is missing,
\* of no valid type, or leads to a file found invalid; once all_valid is
\* false no later path makes it true again.
C14_MainOutcome ==
    /\ [](script = "lint-rules main" =>
            /\ ret.status # "raised"
            /\ Len(stdout) = pc - 1
            /\ \A k \in 1..Len(stdout) : ReportOf(argv.path[k], stdout[k])
            /\ all_valid <=> ~\E k \in 1..Len(stdout) : FailingPath(argv.path[k])
            /\ ret # NoCall =>
                /\ Len(stdout) = Len(argv.path)
                /\ ret = Returned(IF \E k \in 1..Len(argv.path) : FailingPath(argv.path[k])
                                  THEN 1 ELSE 0))
    /\ [][script = "lint-rules main" => (~all_valid => ~all_valid')]_vars

\* a run whose first path is missing and whose last path is a directory
\* without failure handled all three paths and returned 1
C14_Witness ==
    /\ script = "lint-rules main"
    /\ Len(argv.path) = 3
    /\ argv.path[1].kind = "missing"
    /\ ret = Returned(1)
    /\ Len(stdout) = 3
    /\ stdout[3].kind = "counts"
    /\ stdout[3].fail_count = 0

\* ---- generate-pr-report.py ----
Scored == script = "generate-pr-report main" /\ ret # NoCall
Score == stdout[1].quality_score

\* C15: for every combination of the three check results the quality
\* score is an integer from 0 to 100, and main exits with 1 exactly when
\* the score is below 60 (with 0 at exactly 60).
C15_ScoreRangeAndExit ==
    Scored =>
        /\ Score \in 0..100
        /\ ret = Returned(IF Score < 60 THEN 1 ELSE 0)

\* a failed rule validation alone gives the score 60 and the exit code 0
C15_Witness ==
    /\ Scored
    /\ ~argv.rule_check.valid
    /\ Score = 60
    /\ ret = Returned(0)

\* the score after the rule part: 40 off for a failed validation of
\* rule files, else 5 off per warning and not below 0
AfterRules(rule_check) ==
    IF ~rule_check.has_rules THEN 100
    ELSE IF ~rule_check.valid THEN 60
    ELSE IF 5 * Len(rule_check.warnings) > 100 THEN 0
    ELSE 100 - 5 * Len(rule_check.warnings)

DocsOff(doc_check) ==
    IF doc_check.has_rule_changes /\ ~doc_check.docs_updated THEN 20 ELSE 0

TokensOff(token_check) ==
    IF ~token_check.checked THEN 0
    ELSE IF token_check.avg_reduction < 50 * Hundredths THEN 40
    ELSE IF token_check.avg_reduction < 70 * Hundredths THEN 20
    ELSE 0

\* C16: the score is 100 less 40 for a failed validation of present rule
\* files, else less 5 per rule warning floored at 0 at that point, less
\* 20 for rule changes without documentation update, less 40 for a
\* checked avg_reduction below 50 or 20 for one from 50 to below 70; a
\* category that does not apply costs nothing (the result kept in 0..100).
C16_Penalties ==
    Scored =>
        LET total == AfterRules(argv.rule_check) - DocsOff(argv.doc_check)
                     - TokensOff(argv.token_check)
        IN  Score = IF total < 0 THEN 0 ELSE total

\* the warnings alone took the score to the floor, and an avg_reduction
\* of exactly 50 then cost 20
C16_Witness ==
    /\ Scored
    /\ argv.rule_check.valid
    /\ Len(argv.rule_check.warnings) = MaxWarnings
    /\ argv.token_check.checked
    /\ argv.token_check.avg_reduction = 50 * Hundredths
    /\ Score = 0

\* ---- sweeps over several files ----
\* the check of the file fails before its text is looked at: the file
\* is gone, or cannot be read or decoded
CannotRead(f) == ~f.exists \/ ~f.readable

\* number of elements of a sequence that satisfy a test
Count(seq, Test(_)) == Len(SelectSeq(seq, Test))

\* lint-rules.py: every scan of a directory went over all its files
\* that are not exempt, and counted each file it could not read as failed
RulesSweepComplete ==
    /\ ret.status # "raised"
    /\ \A k \in ScannedDirs :
        LET swept == NonExempt(argv.path[k]) IN
        IF argv.json
        THEN /\ Len(stdout[k].results) = Len(swept)
             /\ \A i \in 1..Len(swept) :
                    /\ stdout[k].results[i].file = path_str(swept[i].path)
                    /\ CannotRead(swept[i]) =>
                        /\ ~stdout[k].results[i].valid
                        /\ Len(stdout[k].results[i].errors) = 1
        ELSE /\ stdout[k].pass_count + stdout[k].fail_count = Len(swept)
             /\ stdout[k].fail_count >= Count(swept, CannotRead)

\* the check of the .mdc file fails on its metadata or before
MdcBroken(f) ==
    \/ CannotRead(f)
    \/ PreSchemaFailure(f.content)

\* validate-mdc.py: the scan of a directory went over all its .mdc
\* files, and reported each broken file as invalid with its one error
MdcSweepComplete ==
    /\ ret.status # "raised"
    /\ (ret # NoCall /\ argv.path.kind = "dir") =>
        LET swept == argv.path.mdc_files
            counts == stdout[Len(stdout)]
        IN  /\ counts.valid_count + counts.invalid_count = Len(swept)
            /\ counts.invalid_count >= Count(swept, MdcBroken)
            /\ \A i \in 1..Len(swept) :
                    MdcBroken(swept[i]) =>
                        \E j \in 1..(Len(stdout) - 1) :
                            /\ stdout[j].file = swept[i].path
                            /\ ~stdout[j].valid
                            /\ Len(stdout[j].errors) = 1

\* the files lint-md.py hands to the linter and to its own checks
MarkdownFiles ==
    SelectSeq(argv.files,
              LAMBDA f : f.exists /\ path_suffix(f.path) \in {<<".", "m", "d">>, <<".", "m", "d", "c">>})

\* a command answered the version check, and the linter ran and exited
LinterCompleted ==
    /\ \E i \in 1..2 : argv.env.probes[i] = Exit(0)
    /\ argv.env.run.exc = ""

ReadsOf(log) == SelectSeq(log, LAMBDA c : c.op = "read_text")

\* lint-md.py: once the linter has run, the project checks went over
\* every file outside docs, and each file that could not be read has
\* its one error and makes the run fail
MdSweepComplete ==
    (ret.status = "returned" /\ MarkdownFiles # <<>> /\ LinterCompleted) =>
        LET swept == SelectSeq(MarkdownFiles, LAMBDA f : docs \notin path_parts(f.path))
            reads == ReadsOf(calls)
        IN  /\ Len(reads) = Len(swept)
            /\ \A i \in 1..Len(swept) : reads[i].args = swept[i].path
            /\ \A i \in 1..Len(swept) :
                    CannotRead(swept[i]) =>
                        /\ [file |-> swept[i].path, errors |-> <<MdE("cannot read", <<>>)>>]
                                \in Range(stdout)
                        /\ ret = Returned(1)

\* C17: in a sweep over several files (directory mode of lint-rules.py,
\* text and JSON, validate_directory of validate-mdc.py, project checks
\* of lint-md.py) a file that is unreadable, undecodable, missing or has
\* unparsable metadata becomes an error entry of that file alone: no
\* exception leaves the sweep, every other file is still checked and
\* counted, and the failing file counts as failed.
C17_SweepSurvivesFileFailure ==
    /\ script = "lint-rules main" => RulesSweepComplete
    /\ script = "validate-mdc main" => MdcSweepComplete
    /\ script = "lint-md main" => MdSweepComplete

\* a JSON scan recorded an unreadable file as invalid and a later file
\* as valid
C17_Witness ==
    /\ script = "lint-rules main"
    /\ argv.json
    /\ ret.status = "returned"
    /\ Len(stdout) = 1
    /\ stdout[1].kind = "results"
    /\ \E i, j \in 1..Len(stdout[1].results) :
        /\ i < j
        /\ stdout[1].results[i].errors = <<Issue("error", "read failed", <<>>)>>
        /\ stdout[1].results[j].valid

\* ---- the external linter ----
LinterMain == script \in {"lint-md main", "format-md main"} /\ ret # NoCall

\* some file has an error of the project-specific rules
ProjectErrors ==
    \E i \in 1..Len(MarkdownFiles) :
        check_project_specific_rules(MarkdownFiles[i]).value # <<>>

\* C18: lint_markdown_files returns 0 exactly when some given path
\* exists with a Markdown suffix, the linter was found and ran to
\* completion with exit code 0, and no file has a project-specific
\* error; otherwise it returns a nonzero code: 1 without any call of
\* the linter when no Markdown file remains, 1 without the project
\* checks when the linter is missing or its run failed, 1 when a
\* project-specific error exists, else the nonzero code of the linter.
C18_LintExitCode ==
    (script = "lint-md main" /\ ret # NoCall) =>
        /\ ret.status = "returned"
        /\ (ret.value = 0) <=>
                /\ MarkdownFiles # <<>>
                /\ LinterCompleted
                /\ argv.env.run.returncode = 0
                /\ ~ProjectErrors
        /\ MarkdownFiles = <<>> => (ret.value = 1 /\ calls = <<>>)
        /\ (MarkdownFiles # <<>> /\ ~LinterCompleted) =>
                (ret.value = 1 /\ ReadsOf(calls) = <<>>)
        /\ (MarkdownFiles # <<>> /\ LinterCompleted /\ ProjectErrors) => ret.value = 1
        /\ (MarkdownFiles # <<>> /\ LinterCompleted /\ ~ProjectErrors) =>
                ret.value = argv.env.run.returncode

\* C19: whatever the external linter does (binary absent, version
\* check out of time or failing, run out of time, fault of the process,
\* any exit code), main of format-md.py and lint_markdown_files end by
\* returning an exit code: 1 with a diagnostic for an absent binary, a
\* timeout or a fault, and no exception leaves them.
C19_LinterFailureIsExitCode ==
    LinterMain =>
        /\ ret.status = "returned"
        /\ (MarkdownFiles # <<>> /\ ~LinterCompleted) =>
                (ret.value = 1 /\ stdout # <<>>)

\* the run of the linter proper among the calls: not a version check
LinterRuns ==
    SelectSeq(calls, LAMBDA c : c.op = "subprocess.run" /\ c.args[2] # version_flag)

\* C20: the command line of the linter is the command, then --fix
\* exactly when fixing is asked for, then --config and the file exactly
\* when the configuration file exists, then the files in input order;
\* format-md.py with --check runs it without --fix, lint-md.py never
\* passes --fix.
C20_CommandLine ==
    LinterMain =>
        /\ Len(LinterRuns) <= 1
        /\ \A k \in 1..Len(LinterRuns) :
            LET args == LinterRuns[k].args
                fixing == script = "format-md main" /\ ~argv.check
                fixes == IF fixing THEN 1 ELSE 0
                options == fixes + (IF argv.env.config_exists THEN 2 ELSE 0)
            IN  /\ args[1] \in Range(MARKDOWNLINT_COMMANDS)
                /\ Len(args) = 1 + options + Len(MarkdownFiles)
                /\ fixing <=> args[2] = fix_flag
                /\ fix_flag \in Range(args) <=> fixing
                /\ argv.env.config_exists <=>
                        /\ args[2 + fixes] = config_flag
                        /\ args[3 + fixes] = CONFIG_FILE_NAME
                /\ config_flag \in Range(args) <=> argv.env.config_exists
                /\ \A i \in 1..Len(MarkdownFiles) :
                        args[1 + options + i] = path_str(MarkdownFiles[i].path)

\* format-md.py --check ran the linter with the configuration file and
\* without --fix on two files
C20_Witness ==
    /\ script = "format-md main"
    /\ argv.check
    /\ argv.env.config_exists
    /\ ret = Returned(0)
    /\ Len(LinterRuns) = 1
    /\ Len(LinterRuns[1].args) = 5
    /\ LinterRuns[1].args[2] = config_flag

\* ---- the search for the command of the linter ----
\* the version checks among the calls, in the order they were made
VersionChecks ==
    SelectSeq(calls, LAMBDA c : c.op = "subprocess.run" /\ c.args[2] = version_flag)

\* the version check of candidate k exits with code 0
Succeeds(k) == argv.env.probes[k] = Exit(0)

\* candidate k is not found, runs out of time or exits with another code
Skipped(k) ==
    \/ argv.env.probes[k].exc \in {"FileNotFoundError", "TimeoutExpired"}
    \/ argv.env.probes[k].exc = "" /\ argv.env.probes[k].returncode # 0

MigrateRun == script = "migrate-to-mdc"
Source0 == argv.disk0[md_file]
Target0 == argv.disk0[mdc_file]

\* the cases in which migrate_file is to touch nothing
MustNotTouch ==
    \/ argv.dry_run
    \/ ~Source0.exists
    \/ path_suffix(md_file) # md_suffix
    \/ (Target0.exists /\ ~argv.force)

\* C22: migrate_file leaves every file as it was when the migrator is in
\* dry-run mode, the source does not exist, the source is no .md file, or
\* the target .mdc exists and force is off; a .mdc that existed is changed
\* only when force is set and dry-run is off.
C22_FrameOfMigrateFile ==
    MigrateRun =>
        /\ MustNotTouch => disk = argv.disk0
        /\ (Target0.exists /\ disk[mdc_file] # Target0) => (argv.force /\ ~argv.dry_run)

\* a call that ended because the target exists and force is off, for a
\* source that exists, is a .md file and is not run dry
C22_Witness ==
    /\ MigrateRun /\ pc = 4 /\ ret = Returned(FALSE)
    /\ Source0.exists /\ path_suffix(md_file) = md_suffix
    /\ Target0.exists /\ ~argv.force /\ ~argv.dry_run
    /\ argv.env = AllWell

\* a forced migration has replaced the content of a target that existed
C22_Overwritten ==
    /\ MigrateRun /\ ret = Returned(TRUE)
    /\ Target0.exists /\ argv.force /\ ~argv.dry_run
    /\ disk[mdc_file] # Target0

EndsWith(s, tail) ==
    Len(tail) <= Len(s) /\ SubSeq(s, Len(s) - Len(tail) + 1, Len(s)) = tail

\* a migration that is not run dry, of a .md file that exists
RealMigration ==
    /\ MigrateRun /\ ~argv.dry_run
    /\ Source0.exists /\ path_suffix(md_file) = md_suffix

TargetHolds(content) == disk[mdc_file].exists /\ EndsWith(disk[mdc_file].content, content)

\* C27: in a migration that is not run dry the .md file is deleted only
\* after the .mdc file is written: when the call returns False the .md
\* file is there with its original content; when it returns True the .mdc
\* file exists and ends with the complete original content and the .md
\* file is gone; in every state one of the two files holds the original
\* content.
C27_OriginalKept ==
    RealMigration =>
        /\ ret = Returned(FALSE) => disk[md_file] = Source0
        /\ ret = Returned(TRUE) => (TargetHolds(Source0.content) /\ ~disk[md_file].exists)
        /\ disk[md_file] = Source0 \/ TargetHolds(Source0.content)

\* the same for the content as read_file returns it, that is with every
\* line ending read as "\n"
C27_TextKept ==
    RealMigration =>
        /\ ret = Returned(FALSE) => disk[md_file] = Source0
        /\ ret = Returned(TRUE) =>
                (TargetHolds(universal_newlines(Source0.content)) /\ ~disk[md_file].exists)
        /\ disk[md_file] = Source0 \/ TargetHolds(universal_newlines(Source0.content))

\* a migration has returned True for a file whose lines end with "\r\n"
C27_CarriageReturns ==
    /\ RealMigration /\ ret = Returned(TRUE)
    /\ Contains(Source0.content, <<"\r">>)

\* C28: the text convert_to_mdc makes of a .md document that does not
\* start with "---" is accepted by validate_file: valid is true and there
\* is no error, also when the first heading or the body holds "---".
C28_ConvertedIsValid ==
    (MigrateRun /\ pc = 5 /\ ~str_startswith(universal_newlines(Source0.content), marker)) =>
        (all_valid /\ errors = <<>>)

\* the same for the documents whose first line holds no "---"
C28_PlainTitleIsValid ==
    (/\ MigrateRun /\ pc = 5
     /\ ~str_startswith(universal_newlines(Source0.content), marker)
     /\ ~Contains(str_split(str_strip(universal_newlines(Source0.content)) \o <<"\n">>, <<"\n">>)[1],
                  marker)) =>
        (all_valid /\ errors = <<>>)

\* a converted document whose heading holds "---" has been validated
C28_MarkerInTitle ==
    /\ MigrateRun /\ pc = 5
    /\ Contains(first_title(universal_newlines(Source0.content)), marker)

(***************************************************************************)
(* The order of the findings of one document                               *)
(***************************************************************************)
\* the place of a finding's predicate in the order filename,
\* heading-depth, heading-skip, code-fence-language, examples,
\* concise-length
PredicateRank(kind) ==
    IF kind = "filename" THEN 1
    ELSE IF kind \in {"too deep", "deep"} THEN 2
    ELSE IF kind = "skip" THEN 3
    ELSE IF kind = "no language tag" THEN 4
    ELSE IF kind \in {"no code example", "few code examples", "no Good/Bad"} THEN 5
    ELSE IF kind = "too many lines" THEN 6
    ELSE 0

InPredicateOrder(findings) ==
    \A i, j \in 1..Len(findings) :
        i < j => PredicateRank(findings[i].kind) <= PredicateRank(findings[j].kind)

OfKind(findings, kind) == SelectSeq(findings, LAMBDA x : x.kind = kind)

\* the positions of the headings that are deeper than the limit, and of
\* those that skip a level after the heading before them (first is the
\* level the first heading is compared with, 0 when it is not compared)
DeepAt(headers, limit) == {i \in 1..Len(headers) : headers[i] > limit}
Before(headers, i, first) == IF i = 1 THEN first ELSE headers[i - 1]
SkipAt(headers, first) ==
    {i \in 1..Len(headers) : (i > 1 \/ first = 0) /\ headers[i] > Before(headers, i, first) + 1}

\* the k-th position of a set of positions, in increasing order
Nth(positions, k) == CHOOSE i \in positions : Cardinality({j \in positions : j <= i}) = k

\* the findings of one heading predicate follow the headings they are
\* about, in the order of the document
DepthInDocumentOrder(findings, headers, limit) ==
    /\ Len(OfKind(findings, "too deep")) = Cardinality(DeepAt(headers, limit))
    /\ \A k \in 1..Len(OfKind(findings, "too deep")) :
            OfKind(findings, "too deep")[k].args = <<headers[Nth(DeepAt(headers, limit), k)]>>

SkipInDocumentOrder(findings, headers, first) ==
    /\ Len(OfKind(findings, "skip")) = Cardinality(SkipAt(headers, first))
    /\ \A k \in 1..Len(OfKind(findings, "skip")) :
            OfKind(findings, "skip")[k].args =
                <<Before(headers, Nth(SkipAt(headers, first), k), first),
                  headers[Nth(SkipAt(headers, first), k)]>>

\* the fences without a language are named by increasing position
FencesInDocumentOrder(findings) ==
    \A k \in 1..Len(OfKind(findings, "no language tag")) :
        \A i, j \in 1..Len(OfKind(findings, "no language tag")[k].args) :
            i < j => OfKind(findings, "no language tag")[k].args[i]
                        < OfKind(findings, "no language tag")[k].args[j]

\* the document has been read and checked
Checked == ret.status = "returned" /\ file.exists /\ file.readable

\* C23: the findings of one document come in the order filename,
\* heading-depth, heading-skip, code-fence-language, examples,
\* concise-length, and the findings of one predicate in the order of the
\* headings and fences of the document: in the error list of
\* check_project_specific_rules of lint-md.py and in the error list and
\* in the warning list of check_file of lint-rules.py.
C23_FindingOrder ==
    /\ (script = "lint-md" /\ Checked /\ docs \notin path_parts(file.path)) =>
            /\ InPredicateOrder(ret.value)
            /\ DepthInDocumentOrder(ret.value, md_headers(file.content), MAX_HEADER_LEVEL)
            /\ SkipInDocumentOrder(ret.value, md_headers(file.content), 1)
            /\ FencesInDocumentOrder(ret.value)
    /\ (script = "lint-rules" /\ Checked /\ ~rules_exempt(file.path)) =>
            /\ InPredicateOrder(ret.value[2])
            /\ InPredicateOrder(ret.value[3])
            /\ DepthInDocumentOrder(ret.value[2], rules_headers(file.content),
                                    MAX_HEADER_LEVEL_rules)
            /\ SkipInDocumentOrder(ret.value[2], rules_headers(file.content), 0)

\* a document of lint-rules.py with errors of three predicates, two of
\* them of one predicate, and warnings of two predicates
C23_Witness ==
    /\ script = "lint-rules" /\ Checked
    /\ OfKind(ret.value[2], "filename") # <<>>
    /\ OfKind(ret.value[2], "too deep") # <<>>
    /\ Len(OfKind(ret.value[2], "skip")) >= 2
    /\ OfKind(ret.value[3], "deep") # <<>>
    /\ OfKind(ret.value[3], "few code examples") # <<>>

\* a document of lint-md.py with a heading that is too deep and a skip
C23_WitnessMd ==
    /\ script = "lint-md" /\ Checked
    /\ OfKind(ret.value, "too deep") # <<>>
    /\ OfKind(ret.value, "skip") # <<>>

(***************************************************************************)
(* The heading-depth predicate                                             *)
(***************************************************************************)
Levels(headers) == {headers[i] : i \in 1..Len(headers)}
RulesChecked == script = "lint-rules" /\ Checked /\ ~rules_exempt(file.path)
MdChecked == script = "lint-md" /\ Checked /\ docs \notin path_parts(file.path)

\* the depth findings of the document: errors and warnings
DepthErrors == IF script = "lint-rules" THEN OfKind(ret.value[2], "too deep")
               ELSE OfKind(ret.value, "too deep")
DepthWarnings == IF script = "lint-rules" THEN OfKind(ret.value[3], "deep")
                 ELSE OfKind(ret.value, "deep")
Extracted == IF script = "lint-rules" THEN rules_headers(file.content)
             ELSE md_headers(file.content)

\* C24 as stated: one error for every heading deeper than level 4, and
\* the warning for a heading deeper than level 3 but not deeper than 4,
\* each independent of the other: a document whose deepest heading is of
\* level 4 has the warning and no depth error, one without a heading
\* deeper than level 3 has neither.
C24_DepthAsStated ==
    (RulesChecked \/ MdChecked) =>
        /\ Len(DepthErrors) = Cardinality(DeepAt(Extracted, 4))
        /\ (DepthWarnings # <<>>) <=> (\E l \in Levels(Extracted) : l > 3 /\ l <= 4)

\* C24 amended: both tools report one error for every extracted heading
\* deeper than level 4; lint-rules.py adds exactly one warning for the
\* document when its deepest heading is deeper than level 3, also when
\* that heading is deeper than level 4, and the warning names that
\* level; lint-md.py has no depth warning.
C24_Amended ==
    /\ (RulesChecked \/ MdChecked) => Len(DepthErrors) = Cardinality(DeepAt(Extracted, 4))
    /\ RulesChecked =>
            /\ Len(DepthWarnings) = (IF max_level(Extracted) > 3 THEN 1 ELSE 0)
            /\ \A k \in 1..Len(DepthWarnings) : DepthWarnings[k].args = <<max_level(Extracted)>>
    /\ MdChecked => DepthWarnings = <<>>

\* a document of lint-rules.py with two headings deeper than level 4 and
\* none of level 4: two errors and the warning
C24_Witness ==
    /\ RulesChecked
    /\ Cardinality(DeepAt(Extracted, 4)) = 2
    /\ 4 \notin Levels(Extracted)
    /\ Len(DepthErrors) = 2
    /\ Len(DepthWarnings) = 1

(***************************************************************************)
(* The examples predicate of lint-rules.py                                 *)
(***************************************************************************)
Concise == Contains(path_str(file.path), concise_rules)
Annotated == good_bad_count_from(file.content, 1) > 0
ExampleFindings(kind) ==
    IF kind = "no code example" THEN OfKind(ret.value[2], kind) ELSE OfKind(ret.value[3], kind)

\* the findings of check_code_examples for a document with n code blocks
ExamplesTable(n) ==
    /\ ~Concise =>
        /\ (ExampleFindings("no code example") # <<>>) <=> (n = 0)
        /\ (ExampleFindings("few code examples") # <<>>) <=> (n = 1)
        /\ (ExampleFindings("no Good/Bad") # <<>>) <=> (n >= 1 /\ ~Annotated)
    /\ Concise =>
        /\ ExampleFindings("no code example") = <<>>
        /\ ExampleFindings("few code examples") = <<>>
        /\ ExampleFindings("no Good/Bad") = <<>>

\* C25: on a document that is not concise check_code_examples reports an
\* error when the document has no fenced code block, a warning when it
\* has exactly one, and a warning when it has at least one and no
\* Good/Bad annotation; on a document under .concise-rules it reports
\* nothing, whatever the blocks and annotations.
C25_ExamplesByFencedBlocks ==
    RulesChecked => ExamplesTable(Len(FencedBlocks(file.content, 1, 0)))

\* the same table over the matches of CODE_BLOCK_PATTERN
C25_ExamplesByPatternMatches ==
    RulesChecked => ExamplesTable(Len(code_blocks_from(file.content, 1)))

\* a concise document without a code block has been checked
C25_ConciseChecked ==
    RulesChecked /\ Concise /\ FencedBlocks(file.content, 1, 0) = <<>>

(***************************************************************************)
(* Calls on one instance                                                   *)
(***************************************************************************)
InstanceRun == script \in {"lint-rules instance", "validate-mdc instance"}

\* what a new instance returns for the k-th file of the run
Fresh(k) ==
    IF script = "lint-rules instance" THEN check_file(argv[k]) ELSE validate_file(argv[k])

\* C26: for every sequence of check_file or validate_file calls on one
\* instance the result for a file is the result a new instance gives for
\* it, and the error and warning lists returned for an earlier file are
\* not changed by the calls for later files: they are lists of their own
\* and hold the findings of their file alone.
C26_InstanceIndependence ==
    InstanceRun =>
        /\ Len(returns) = pc
        /\ \A k \in 1..Len(returns) :
            IF Fresh(k).status = "raised" THEN returns[k].status = "raised"
            ELSE /\ returns[k].status = "returned"
                 /\ returns[k].valid = Fresh(k).value[1]
                 /\ heap[returns[k].errors] = Fresh(k).value[2]
                 /\ heap[returns[k].warnings] = Fresh(k).value[3]
                 /\ returns[k].errors # returns[k].warnings
                 /\ \A j \in 1..(k - 1) :
                        returns[j].status = "returned" =>
                            {returns[j].errors, returns[j].warnings}
                                \cap {returns[k].errors, returns[k].warnings} = {}

\* three calls on one instance: the first file has errors and warnings,
\* the last one has findings too, and not the same
C26_Witness ==
    /\ InstanceRun /\ Len(returns) = 3
    /\ returns[1].status = "returned" /\ returns[3].status = "returned"
    /\ heap[returns[1].errors] # <<>>
    /\ heap[returns[3].errors] # <<>>
    /\ heap[returns[3].errors] # heap[returns[1].errors]

(***************************************************************************)
(* generate-pr-report.py: the checks of a change set                       *)
(***************************************************************************)
Reported == script = "generate-pr-report changes" /\ ret # NoCall
AllChanged == argv.added \o argv.modified
RuleCheckOf == stdout[1].rule_check
DocCheckOf == stdout[1].doc_check

\* the changed rule files whose lint-rules.py run has exited with a code
\* other than 0 and has printed a document with valid = false
FailedRuns ==
    SelectSeq(calls, LAMBDA f :
        argv.python_ok /\ check_file(f).status = "returned" /\ ~check_file(f).value[1])

RECURSIVE WarningsOfFiles(_)
WarningsOfFiles(files) ==
    IF files = <<>> THEN <<>>
    ELSE check_file(Head(files)).value[3] \o WarningsOfFiles(Tail(files))

\* the score without the deduction of 5 points for each warning
ScoreWithoutWarnings ==
    clamp(token_penalty(
            doc_penalty(IF RuleCheckOf.has_rules /\ ~RuleCheckOf.valid THEN 60 ELSE 100,
                        DocCheckOf),
            argv.token_check))

\* C29: check_rule_files takes warnings only from the rule files whose
\* lint-rules.py run exits with a code other than 0 and reports
\* valid = false; a result with warnings therefore has errors and
\* valid = false, the deduction of 5 points for each warning is never
\* made for a result of check_rule_files, and the warnings of rule files
\* that pass do not lower the score.
C29_WarningsOnlyWithErrors ==
    Reported =>
        /\ RuleCheckOf.has_rules =>
            /\ RuleCheckOf.warnings = WarningsOfFiles(FailedRuns)
            /\ RuleCheckOf.warnings # <<>> =>
                    (RuleCheckOf.errors # <<>> /\ ~RuleCheckOf.valid)
        /\ stdout[1].quality_score = ScoreWithoutWarnings

\* a change set with a rule file that passes with warnings and one that
\* fails with warnings has been reported: the result is valid = false
\* and holds warnings
C29_Witness ==
    /\ Reported /\ argv.python_ok
    /\ \E i \in 1..Len(calls) :
            check_file(calls[i]).value[1] /\ check_file(calls[i]).value[3] # <<>>
    /\ RuleCheckOf.has_rules /\ RuleCheckOf.warnings # <<>>

\* a change set whose only rule file passes with warnings: no finding
\* is taken and the score is not lowered
C29_PassingWithWarnings ==
    /\ Reported /\ argv.python_ok /\ Len(calls) = 1
    /\ check_file(calls[1]).value[1] /\ check_file(calls[1]).value[3] # <<>>
    /\ RuleCheckOf.warnings = <<>> /\ RuleCheckOf.valid

ChangedPaths == {path_str(AllChanged[i].path) : i \in 1..Len(AllChanged)}
RulePaths ==
    IF RuleCheckOf.has_rules
    THEN {path_str(RuleCheckOf.files[i].path) : i \in 1..Len(RuleCheckOf.files)}
    ELSE {}
RunPaths == {path_str(calls[i].path) : i \in 1..Len(calls)}
changelog_md == <<"C", "H", "A", "N", "G", "E", "L", "O", "G", ".", "m", "d">>

\* C30: a changed CHANGELOG.md counts as a rule file change:
\* check_documentation reports has_rule_changes = true for it, also when
\* it is the only changed file, and check_rule_files lists it and runs
\* lint-rules.py on it, which reports that the name does not match the
\* pattern of rule file names; a path that holds README.md or starts
\* with docs/ counts in neither.
C30_ChangelogIsRuleChange ==
    Reported =>
        /\ changelog_md \in ChangedPaths =>
            /\ DocCheckOf.has_rule_changes
            /\ changelog_md \in RulePaths
            /\ changelog_md \in RunPaths
            /\ argv.python_ok =>
                    (OfKind(RuleCheckOf.errors, "filename") # <<>> /\ ~RuleCheckOf.valid)
        /\ \A f \in ChangedPaths :
                (Contains(f, README_md) \/ HasAt(f, 1, docs_slash)) => f \notin RulePaths
        /\ (\A f \in ChangedPaths :
                \/ Contains(f, README_md) \/ HasAt(f, 1, docs_slash)
                \/ ~(str_endswith(f, md_suffix) \/ str_endswith(f, mdc_suffix)))
            => (~DocCheckOf.has_rule_changes /\ ~RuleCheckOf.has_rules)

\* the change set whose only file is CHANGELOG.md has been reported
C30_Witness ==
    /\ Reported
    /\ ChangedPaths = {changelog_md}
    /\ DocCheckOf.has_rule_changes /\ DocCheckOf.docs_updated

\* a change set of a README.md, a file under docs/ and a file whose name
\* holds README.md has been reported
C30_Excluded ==
    /\ Reported
    /\ ChangedPaths = {<<"R", "E", "A", "D", "M", "E", ".", "m", "d">>, <<"d", "o", "c", "s", "/", "g", "u", "i", "d", "e", ".", "m", "d">>, <<"r", "u", "l", "e", "s", "/", "M", "Y", "R", "E", "A", "D", "M", "E", ".", "m", "d">>}

====
